---- MODULE Spec2Model ----
(***************************************************************************)
(* Import classification and preview / story analysis of the TurboSnap     *)
(* helper (analyze-mode and preview-mode).  File texts are sequences of    *)
(* one-character strings; the regular expressions of the source are        *)
(* evaluated on them with JavaScript's leftmost, greedy, backtracking      *)
(* semantics.                                                              *)
(***************************************************************************)
EXTENDS Integers, Sequences, FiniteSets, TLC

VARIABLES
    stmts,      \* the statements the file text was written from (input record)
    content,    \* fs.readFileSync(filePath): the text under analysis
    manifest,   \* package.json at the repository root hint
    pc,         \* position of the run
    res,        \* the record returned by the analyzer
    report,     \* what the mode displays for the record
    filePath,   \* analyzeStoryFile: the path of the story file
    files,      \* the source files on disk beside the story: path -> statements
    pending,    \* analyzeStoryFile: the candidate patterns not yet queried
    queries,    \* the patterns handed to glob so far
    imports,    \* analyzeStoryFile: the story's own staticImports, dynamicImports
    componentFile,  \* analyzeStoryFile: the local componentFile
    results,    \* the records handed to the reporter
    mode,       \* the mode of the run: analyze or preview
    storybookDirs,      \* the .storybook directories glob finds
    selectedProject,    \* the answer to the project prompt
    found,      \* the story or preview files glob discovers
    tasks,      \* Promise.all: the per-file analyses
    jobs,       \* the continuations ready to run, in the order they will run
    shown,      \* the titles of the boxes displayed so far
    exit,       \* the exit status of the process, once it has exited
    variant,    \* which updateChromaticConfig of the sources runs
    existingConfig,     \* the parsed content of the existing config file
    meta,       \* ProjectMeta: the directories detected for the project
    answers,    \* the user's answers to the prompts of the update
    written,    \* the content of the config file after writeFileSync
    packageJson,    \* the parsed package.json of the project: its scripts
    configPath,     \* the config file's path
    asked,      \* the names of the prompts put to the user so far
    returned,   \* what the operation under way returned
    configured  \* buildConfig: the projects configured so far, in order

storyVars == <<filePath, files, pending, queries, imports, componentFile>>

modeVars == <<results, mode, storybookDirs, selectedProject, found, tasks, jobs, shown,
              exit>>

configVars == <<variant, existingConfig, meta, answers, written>>

flowVars == <<packageJson, configPath, asked, returned, configured>>

vars == <<stmts, content, manifest, pc, res, report, storyVars, modeVars, configVars,
          flowVars>>

----------------------------------------------------------------------------
(* Bounds of the model *)

MaxStmts == 3
MaxPrefix == 3
MaxLead == 1
MaxFill == 11
MaxStory == 2

----------------------------------------------------------------------------
(* Characters and words *)

\* A text is the sequence of its UTF-16 code units, as a string of the
\* language is.  A code unit from U+0000 to U+00FF is written as the string of
\* that one character, or by its code where the character cannot be written
\* in a string of this module; every other code unit is written by its code
\* in four hexadecimal digits, as in "U+2000".  A code point past U+FFFF is
\* its two surrogates, as in "U+D835", "U+DC00".
\* CHARS[n + 1] is the code unit of code n, for the codes 0 to 255
CHARS == <<
    "U+0000", "U+0001", "U+0002", "U+0003", "U+0004", "U+0005", "U+0006", "U+0007", "U+0008", "\t", "\n", "U+000B", "\f", "\r", "U+000E", "U+000F",
    "U+0010", "U+0011", "U+0012", "U+0013", "U+0014", "U+0015", "U+0016", "U+0017", "U+0018", "U+0019", "U+001A", "U+001B", "U+001C", "U+001D", "U+001E", "U+001F",
    " ", "!", "\"", "#", "$", "%", "&", "'", "(", ")", "*", "+", ",", "-", ".", "/",
    "0", "1", "2", "3", "4", "5", "6", "7", "8", "9", ":", ";", "<", "=", ">", "?",
    "@", "A", "B", "C", "D", "E", "F", "G", "H", "I", "J", "K", "L", "M", "N", "O",
    "P", "Q", "R", "S", "T", "U", "V", "W", "X", "Y", "Z", "[", "\\", "]", "^", "_",
    "U+0060", "a", "b", "c", "d", "e", "f", "g", "h", "i", "j", "k", "l", "m", "n", "o",
    "p", "q", "r", "s", "t", "u", "v", "w", "x", "y", "z", "{", "|", "}", "~", "U+007F",
    "U+0080", "U+0081", "U+0082", "U+0083", "U+0084", "U+0085", "U+0086", "U+0087", "U+0088", "U+0089", "U+008A", "U+008B", "U+008C", "U+008D", "U+008E", "U+008F",
    "U+0090", "U+0091", "U+0092", "U+0093", "U+0094", "U+0095", "U+0096", "U+0097", "U+0098", "U+0099", "U+009A", "U+009B", "U+009C", "U+009D", "U+009E", "U+009F",
    "U+00A0", "¡", "¢", "£", "¤", "¥", "¦", "§", "¨", "©", "ª", "«", "¬", "U+00AD", "®", "¯",
    "°", "±", "²", "³", "´", "µ", "¶", "·", "¸", "¹", "º", "»", "¼", "½", "¾", "¿",
    "À", "Á", "Â", "Ã", "Ä", "Å", "Æ", "Ç", "È", "É", "Ê", "Ë", "Ì", "Í", "Î", "Ï",
    "Ð", "Ñ", "Ò", "Ó", "Ô", "Õ", "Ö", "×", "Ø", "Ù", "Ú", "Û", "Ü", "Ý", "Þ", "ß",
    "à", "á", "â", "ã", "ä", "å", "æ", "ç", "è", "é", "ê", "ë", "ì", "í", "î", "ï",
    "ð", "ñ", "ò", "ó", "ô", "õ", "ö", "÷", "ø", "ù", "ú", "û", "ü", "ý", "þ", "ÿ" >>
Latin1 == {CHARS[n] : n \in 1..Len(CHARS)}
CodeTable == [c \in Latin1 |-> (CHOOSE n \in 1..Len(CHARS) : CHARS[n] = c) - 1]

HEX == <<"0", "1", "2", "3", "4", "5", "6", "7", "8", "9", "A", "B", "C", "D", "E", "F">>
HexTable == [d \in {HEX[n] : n \in 1..Len(HEX)} |-> (CHOOSE n \in 1..Len(HEX) : HEX[n] = d) - 1]

\* the code of a code unit
CodeOf(c) ==
    IF c \in Latin1 THEN CodeTable[c]
    ELSE 4096 * HexTable[SubSeq(c, 3, 3)] + 256 * HexTable[SubSeq(c, 4, 4)]
             + 16 * HexTable[SubSeq(c, 5, 5)] + HexTable[SubSeq(c, 6, 6)]

\* the code unit of a code
CharOf(n) ==
    IF n < Len(CHARS) THEN CHARS[n + 1]
    ELSE "U+" \o HEX[(n \div 4096) + 1] \o HEX[((n \div 256) % 16) + 1]
              \o HEX[((n \div 16) % 16) + 1] \o HEX[(n % 16) + 1]

IsHighSurrogate(c) == CodeOf(c) >= \hD800 /\ CodeOf(c) <= \hDBFF
IsLowSurrogate(c) == CodeOf(c) >= \hDC00 /\ CodeOf(c) <= \hDFFF

\* a code point starts at i: the code unit there is not the second of a pair
StartsCodePoint(s, i) == ~(i > 1 /\ IsLowSurrogate(s[i]) /\ IsHighSurrogate(s[i - 1]))

\* the code point that starts at i
CodePointAt(s, i) ==
    IF i < Len(s) /\ IsHighSurrogate(s[i]) /\ IsLowSurrogate(s[i + 1])
    THEN \h10000 + 1024 * (CodeOf(s[i]) - \hD800) + (CodeOf(s[i + 1]) - \hDC00)
    ELSE CodeOf(s[i])

\* the code units of a code point
CodeUnits(cp) ==
    IF cp < \h10000 THEN <<CharOf(cp)>>
    ELSE <<CharOf(\hD800 + ((cp - \h10000) \div 1024)),
           CharOf(\hDC00 + ((cp - \h10000) % 1024))>>

\* The white space and line terminators of the language, the class \s:
\* U+0009 to U+000D, U+0020, U+00A0, U+1680, U+FEFF, and the code points below
WS == {"\t", "\n", "U+000B", "\f", "\r", " ", "U+00A0", "U+1680", "U+FEFF",
       "U+2000", "U+2001", "U+2002", "U+2003", "U+2004", "U+2005", "U+2006", "U+2007",
       "U+2008", "U+2009", "U+200A", "U+2028", "U+2029", "U+202F", "U+205F", "U+3000"}
Quotes == {"'", "\""}

SP == <<" ">>
NL == <<"\n">>
SEMI == <<";">>
IMPORT == <<"i", "m", "p", "o", "r", "t">>
FROM == <<"f", "r", "o", "m">>
REQUIRE == <<"r", "e", "q", "u", "i", "r", "e">>
AWAIT == <<"a", "w", "a", "i", "t">>
LPAR == <<"(">>
RPAR == <<")">>
CONSTM == <<"c", "o", "n", "s", "t", " ", "m", " ", "=", " ">>
IMPORT_CALL == IMPORT \o LPAR
REQUIRE_CALL == REQUIRE \o LPAR

\* t has the literal w at position p
IsLit(t, p, w) ==
    /\ p >= 1
    /\ p <= Len(t)
    /\ t[p] = w[1]
    /\ p + Len(w) - 1 <= Len(t)
    /\ SubSeq(t, p, p + Len(w) - 1) = w

\* first position q >= p with q > Len(t) or t[q] \notin S: the end of a greedy S*
RECURSIVE RunEnd(_, _, _)
RunEnd(t, p, S) ==
    IF p > Len(t) \/ t[p] \notin S THEN p ELSE RunEnd(t, p + 1, S)

SetMax(S) == CHOOSE x \in S : \A y \in S : y <= x
SetMin(S) == CHOOSE x \in S : \A y \in S : x <= y

\* first position q >= p with q > Len(t) or t[q] \in S: the end of a greedy [^S]*
RunEndNot(t, p, S) ==
    LET Q == {q \in p..Len(t) : t[q] \in S}
    IN  IF Q = {} THEN Len(t) + 1 ELSE SetMin(Q)

NoMatch == [ok |-> FALSE, cap |-> <<>>, at |-> 0, capAt |-> 0, end |-> 0]

----------------------------------------------------------------------------
(* The static import expression                                            *)
(*   /import\s+(?:{[^}]*}|[^;]+)\s+from\s+['"]([^'"]+)['"]/g               *)

\* ['"]([^'"]+)['"] at b; the match starts at p
QuotedAt(t, p, b) ==
    IF b > Len(t) \/ t[b] \notin Quotes THEN NoMatch
    ELSE LET c == RunEndNot(t, b + 1, Quotes)
         IN  IF c = b + 1 \/ c > Len(t) THEN NoMatch
             ELSE [ok |-> TRUE, cap |-> SubSeq(t, b + 1, c - 1), at |-> p,
                   capAt |-> b + 1, end |-> c + 1]

\* the from clause with the keyword left out: \s*['"]([^'"]+)['"]
FromClauseWithoutFrom(t, p, q) == QuotedAt(t, p, RunEnd(t, q, WS))

\* \s+from\s+['"]([^'"]+)['"] at q; the match starts at p
FromClauseAt(t, p, q) ==
    LET a == RunEnd(t, q, WS)
    IN  IF a = q \/ ~IsLit(t, a, FROM) THEN NoMatch
        ELSE LET b == RunEnd(t, a + Len(FROM), WS)
             IN  IF b = a + Len(FROM) THEN NoMatch ELSE QuotedAt(t, p, b)

\* first alternative {[^}]*} at s, then the from clause
BracesAt(t, p, s) ==
    IF s > Len(t) \/ t[s] # "{" THEN NoMatch
    ELSE LET c == RunEndNot(t, s + 1, {"}"})
         IN  IF c > Len(t) THEN NoMatch ELSE FromClauseAt(t, p, c + 1)

\* second alternative [^;]+ at s: greedy, giving back one character at a time
\* until the from clause matches
AnyBindingAt(t, p, s) ==
    LET lim == RunEndNot(t, s, {";"})
        E == {e \in (s + 1)..lim : FromClauseAt(t, p, e).ok}
    IN  IF E = {} THEN NoMatch ELSE FromClauseAt(t, p, SetMax(E))

\* (?:{[^}]*}|[^;]+) at s: the alternatives in order
BindingAt(t, p, s) ==
    LET m1 == BracesAt(t, p, s)
    IN  IF m1.ok THEN m1 ELSE AnyBindingAt(t, p, s)

\* the whole expression at p; import\s+ is greedy and gives back whitespace
StaticMatchAt(t, p) ==
    IF ~IsLit(t, p, IMPORT) THEN NoMatch
    ELSE LET w == RunEnd(t, p + Len(IMPORT), WS)
             S == {s \in (p + Len(IMPORT) + 1)..w : BindingAt(t, p, s).ok}
         IN  IF S = {} THEN NoMatch ELSE BindingAt(t, p, SetMax(S))

----------------------------------------------------------------------------
(* The dynamic import expression                                           *)
(*   /(?:import\(|require\(|await\s+import\()\s*['"]([^'"]+)['"]/g         *)

\* end of the callee alternative matched at p, 0 when none matches
CalleeEnd(t, p) ==
    IF IsLit(t, p, IMPORT_CALL) THEN p + Len(IMPORT_CALL)
    ELSE IF IsLit(t, p, REQUIRE_CALL) THEN p + Len(REQUIRE_CALL)
    ELSE IF IsLit(t, p, AWAIT)
         THEN LET a == RunEnd(t, p + Len(AWAIT), WS)
              IN  IF a > p + Len(AWAIT) /\ IsLit(t, a, IMPORT_CALL)
                  THEN a + Len(IMPORT_CALL) ELSE 0
    ELSE 0

\* the call expression with any argument: (?:...)\s*([^)]+)
DynamicMatchAnyArgument(t, p) ==
    LET c == CalleeEnd(t, p)
        b == RunEnd(t, c, WS)
        e == RunEndNot(t, b, {")"})
    IN  IF c = 0 \/ e = b \/ e > Len(t) THEN NoMatch
        ELSE [ok |-> TRUE, cap |-> SubSeq(t, b, e - 1), at |-> p, capAt |-> b,
              end |-> e]

DynamicMatchAt(t, p) ==
    LET c == CalleeEnd(t, p)
    IN  IF c = 0 THEN NoMatch ELSE QuotedAt(t, p, RunEnd(t, c, WS))

----------------------------------------------------------------------------
(* regex.exec in a while loop: the global flag resumes at lastIndex        *)

\* resuming one character after the start of the match
LastIndexOverlapping(m) == m.at + 1

\* lastIndex after a successful exec: the end of the match
LastIndex(m) == m.end

\* exec returns the leftmost match at or after lastIndex
RECURSIVE StaticExecAll(_, _)
StaticExecAll(t, from) ==
    LET P == {p \in from..Len(t) : StaticMatchAt(t, p).ok}
    IN  IF P = {} THEN <<>>
        ELSE LET m == StaticMatchAt(t, SetMin(P))
             IN  <<m>> \o StaticExecAll(t, LastIndex(m))

RECURSIVE DynamicExecAll(_, _)
DynamicExecAll(t, from) ==
    LET P == {p \in from..Len(t) : DynamicMatchAt(t, p).ok}
    IN  IF P = {} THEN <<>>
        ELSE LET m == DynamicMatchAt(t, SetMin(P))
             IN  <<m>> \o DynamicExecAll(t, LastIndex(m))

Caps(ms) == [i \in 1..Len(ms) |-> ms[i].cap]
CapSites(ms) == {ms[i].capAt : i \in 1..Len(ms)}

\* analyzeFile: the match[1] of every match, pushed in order
analyzeFile(t) ==
    LET sm == StaticExecAll(t, 1)
        dm == DynamicExecAll(t, 1)
    IN  [staticImports |-> Caps(sm), dynamicImports |-> Caps(dm)]

\* where in the text the two loops found the specifiers they pushed
MatchSites(t) ==
    [staticSites |-> CapSites(StaticExecAll(t, 1)),
     dynamicSites |-> CapSites(DynamicExecAll(t, 1))]

----------------------------------------------------------------------------
(* File texts: the statements a source file is written from *)

Null == [kind |-> "none"]

\* an optional value: undefined, or a value
None == [present |-> FALSE]
Some(v) == [present |-> TRUE, value |-> v]

BindDefault == <<"x">>
BindNamespace == <<"*", " ", "a", "s", " ", "n">>
BindNamed == <<"{", " ", "x", " ", "}">>

PathA == <<".", "/", "a">>
PathB == <<".", "/", "b">>

\* import <binding> from '<spec>' with the quote q and the terminator semi
StaticStmt(binding, q, spec, semi) ==
    [kind |-> "static", spec |-> spec,
     chars |-> IMPORT \o SP \o binding \o SP \o FROM \o SP
               \o <<q>> \o spec \o <<q>> \o semi \o NL]

\* const m = <callee>('<spec>')
DynamicStmt(callee, q, spec, semi) ==
    [kind |-> "dynamic", spec |-> spec,
     chars |-> CONSTM \o callee \o LPAR \o <<q>> \o spec \o <<q>> \o RPAR
               \o semi \o NL]

\* text in which neither import pattern occurs
OtherStmt(chars) == [kind |-> "other", spec |-> <<>>, chars |-> chars \o SEMI \o NL]

StaticPieces ==
    { StaticStmt(BindDefault, "'", PathA, SEMI),
      StaticStmt(BindDefault, "'", PathA, <<>>),
      StaticStmt(BindNamespace, "\"", PathB, SEMI),
      StaticStmt(BindNamespace, "\"", PathB, <<>>),
      StaticStmt(BindNamed, "'", PathA, SEMI),
      StaticStmt(BindNamed, "\"", PathB, <<>>) }

DynamicPieces ==
    { DynamicStmt(IMPORT, "'", PathA, SEMI),
      DynamicStmt(REQUIRE, "\"", PathB, <<>>),
      DynamicStmt(AWAIT \o SP \o IMPORT, "'", PathA, SEMI) }

OtherPieces ==
    { OtherStmt(IMPORT \o LPAR \o <<"x">> \o RPAR),
      OtherStmt(<<"e", "x", "p", "o", "r", "t", " ">> \o BindNamed \o SP \o FROM
                \o SP \o <<"'">> \o PathA \o <<"'">>) }

ClassifyPieces == StaticPieces \cup DynamicPieces \cup OtherPieces

SeqsUpTo(S, n) == UNION {[1..k -> S] : k \in 0..n}

RECURSIVE Text(_)
Text(ss) == IF ss = <<>> THEN <<>> ELSE Head(ss).chars \o Text(Tail(ss))

SpecsOf(ss, kind) ==
    LET sel == SelectSeq(ss, LAMBDA s : s.kind = kind)
    IN  [i \in 1..Len(sel) |-> sel[i].spec]

NoManifest == [exists |-> FALSE, readable |-> FALSE, parses |-> FALSE,
               workspaces |-> "undefined"]

\* no mode is running
ModeIdle ==
    /\ results = <<>>
    /\ mode = "none"
    /\ storybookDirs = <<>>
    /\ selectedProject = None
    /\ found = None
    /\ tasks = <<>>
    /\ jobs = <<>>
    /\ shown = <<>>
    /\ exit = None

\* no operation of the init flow is under way
FlowIdle ==
    /\ packageJson = <<>>
    /\ configPath = <<>>
    /\ asked = <<>>
    /\ returned = None
    /\ configured = <<>>

\* no config file is being updated
ConfigIdle ==
    /\ variant = "none"
    /\ existingConfig = <<>>
    /\ meta = <<>>
    /\ answers = <<>>
    /\ written = None

----------------------------------------------------------------------------
(* Classification of one file: analyzeFile applied to the file's text *)

InitClassify ==
    /\ stmts \in SeqsUpTo(ClassifyPieces, MaxStmts)
    /\ content = Text(stmts)
    /\ manifest = NoManifest
    /\ pc = "start"
    /\ res = Null
    /\ report = Null
    /\ filePath = <<>>
    /\ files = <<>>
    /\ pending = <<>>
    /\ queries = <<>>
    /\ imports = Null
    /\ componentFile = None
    /\ ModeIdle
    /\ FlowIdle
    /\ ConfigIdle

AnalyzeFileStep ==
    /\ pc = "start"
    /\ res' = analyzeFile(content)
    /\ report' = MatchSites(content)
    /\ pc' = "analyzed"
    /\ UNCHANGED <<stmts, content, manifest, storyVars>>
    /\ UNCHANGED <<modeVars, configVars, flowVars>>

NextClassify == AnalyzeFileStep

SpecClassify == InitClassify /\ [][NextClassify]_vars

AllOfKind(kind) == \A i \in 1..Len(stmts) : stmts[i].kind = kind

\* C1: a text of n static import statements (default, namespace or named
\* binding, either quote, with or without semicolon) yields staticImports of
\* length n whose i-th entry is the i-th statement's specifier.
C1_OneEntryPerStaticStatement ==
    (pc = "analyzed" /\ AllOfKind("static"))
        => res.staticImports = SpecsOf(stmts, "static")

HasStmt(s) == \E i \in 1..Len(stmts) : stmts[i] = s

AwaitImportA == DynamicStmt(AWAIT \o SP \o IMPORT, "'", PathA, SEMI)
RequireB == DynamicStmt(REQUIRE, "\"", PathB, <<>>)

\* C2: every import('<s>'), require('<s>') or await import('<s>') call site
\* contributes exactly one entry to dynamicImports, in order of appearance;
\* an awaited import is counted once.
C2_OneEntryPerDynamicCallSite ==
    pc = "analyzed" => res.dynamicImports = SpecsOf(stmts, "dynamic")

C2_Witness ==
    /\ pc = "analyzed"
    /\ HasStmt(AwaitImportA)
    /\ HasStmt(RequireB)
    /\ Len(res.dynamicImports) = 2

\* C3: no text position of a quoted specifier is captured both as a static
\* and as a dynamic import.
C3_NoSiteStaticAndDynamic ==
    pc = "analyzed" => report.staticSites \cap report.dynamicSites = {}

C3_Witness ==
    /\ pc = "analyzed"
    /\ report.staticSites # {}
    /\ report.dynamicSites # {}
    /\ \E i \in 1..Len(res.staticImports), j \in 1..Len(res.dynamicImports) :
           res.staticImports[i] = res.dynamicImports[j]

\* C4: the classifier returns a result for every text, the empty text
\* included, and a text in which neither pattern occurs yields two empty
\* sequences.
C4_TotalAndEmptyWithoutImports ==
    /\ pc \in {"start", "analyzed"}
    /\ pc = "analyzed" =>
           /\ DOMAIN res.staticImports = 1..Len(res.staticImports)
           /\ DOMAIN res.dynamicImports = 1..Len(res.dynamicImports)
           /\ AllOfKind("other") =>
                  res.staticImports = <<>> /\ res.dynamicImports = <<>>

C4_Witness ==
    /\ pc = "analyzed"
    /\ Len(stmts) >= 2
    /\ AllOfKind("other")
    /\ res.staticImports = <<>>
    /\ res.dynamicImports = <<>>

----------------------------------------------------------------------------
(* preview mode: analyzePreviewFile and the display of its record *)

IMPORT_THRESHOLD == 10

KwWrapper == <<"w", "r", "a", "p", "p", "e", "r">>
KwDecorator == <<"d", "e", "c", "o", "r", "a", "t", "o", "r">>
KwTheme == <<"t", "h", "e", "m", "e">>
KwProvider == <<"p", "r", "o", "v", "i", "d", "e", "r">>

SHARED_WRAPPER_KEYWORDS == <<KwWrapper, KwDecorator, KwTheme, KwProvider>>

UpperCase == <<"A", "B", "C", "D", "E", "F", "G", "H", "I", "J", "K", "L", "M",
               "N", "O", "P", "Q", "R", "S", "T", "U", "V", "W", "X", "Y", "Z">>
LowerCase == <<"a", "b", "c", "d", "e", "f", "g", "h", "i", "j", "k", "l", "m",
               "n", "o", "p", "q", "r", "s", "t", "u", "v", "w", "x", "y", "z">>

\* String.prototype.toLowerCase left undone
ToLowerCaseIdentity(s) == s

\* The character data below are those of the ICU library the runtime is
\* built with: toLowerCase and the names of the groups of a pattern read
\* the case forms and the identifier properties of that edition.

\* the code points with a lower case form of their own, in runs <<first, last,
\* step, lower case of first>>: the code points first, first + step, ... up
\* to last, each as far from its lower case form as first is
LOWERCASE_MAPPINGS == <<
    <<\h0041, \h005A, 1, \h0061>>, <<\h00C0, \h00D6, 1, \h00E0>>, <<\h00D8, \h00DE, 1, \h00F8>>,
    <<\h0100, \h012E, 2, \h0101>>, <<\h0130, \h0130, 1, \h0069>>, <<\h0132, \h0136, 2, \h0133>>,
    <<\h0139, \h0147, 2, \h013A>>, <<\h014A, \h0176, 2, \h014B>>, <<\h0178, \h0178, 1, \h00FF>>,
    <<\h0179, \h017D, 2, \h017A>>, <<\h0181, \h0181, 1, \h0253>>, <<\h0182, \h0184, 2, \h0183>>,
    <<\h0186, \h0186, 1, \h0254>>, <<\h0187, \h0187, 1, \h0188>>, <<\h0189, \h018A, 1, \h0256>>,
    <<\h018B, \h018B, 1, \h018C>>, <<\h018E, \h018E, 1, \h01DD>>, <<\h018F, \h018F, 1, \h0259>>,
    <<\h0190, \h0190, 1, \h025B>>, <<\h0191, \h0191, 1, \h0192>>, <<\h0193, \h0193, 1, \h0260>>,
    <<\h0194, \h0194, 1, \h0263>>, <<\h0196, \h0196, 1, \h0269>>, <<\h0197, \h0197, 1, \h0268>>,
    <<\h0198, \h0198, 1, \h0199>>, <<\h019C, \h019C, 1, \h026F>>, <<\h019D, \h019D, 1, \h0272>>,
    <<\h019F, \h019F, 1, \h0275>>, <<\h01A0, \h01A4, 2, \h01A1>>, <<\h01A6, \h01A6, 1, \h0280>>,
    <<\h01A7, \h01A7, 1, \h01A8>>, <<\h01A9, \h01A9, 1, \h0283>>, <<\h01AC, \h01AC, 1, \h01AD>>,
    <<\h01AE, \h01AE, 1, \h0288>>, <<\h01AF, \h01AF, 1, \h01B0>>, <<\h01B1, \h01B2, 1, \h028A>>,
    <<\h01B3, \h01B5, 2, \h01B4>>, <<\h01B7, \h01B7, 1, \h0292>>, <<\h01B8, \h01B8, 1, \h01B9>>,
    <<\h01BC, \h01BC, 1, \h01BD>>, <<\h01C4, \h01C4, 1, \h01C6>>, <<\h01C5, \h01C5, 1, \h01C6>>,
    <<\h01C7, \h01C7, 1, \h01C9>>, <<\h01C8, \h01C8, 1, \h01C9>>, <<\h01CA, \h01CA, 1, \h01CC>>,
    <<\h01CB, \h01DB, 2, \h01CC>>, <<\h01DE, \h01EE, 2, \h01DF>>, <<\h01F1, \h01F1, 1, \h01F3>>,
    <<\h01F2, \h01F4, 2, \h01F3>>, <<\h01F6, \h01F6, 1, \h0195>>, <<\h01F7, \h01F7, 1, \h01BF>>,
    <<\h01F8, \h021E, 2, \h01F9>>, <<\h0220, \h0220, 1, \h019E>>, <<\h0222, \h0232, 2, \h0223>>,
    <<\h023A, \h023A, 1, \h2C65>>, <<\h023B, \h023B, 1, \h023C>>, <<\h023D, \h023D, 1, \h019A>>,
    <<\h023E, \h023E, 1, \h2C66>>, <<\h0241, \h0241, 1, \h0242>>, <<\h0243, \h0243, 1, \h0180>>,
    <<\h0244, \h0244, 1, \h0289>>, <<\h0245, \h0245, 1, \h028C>>, <<\h0246, \h024E, 2, \h0247>>,
    <<\h0370, \h0372, 2, \h0371>>, <<\h0376, \h0376, 1, \h0377>>, <<\h037F, \h037F, 1, \h03F3>>,
    <<\h0386, \h0386, 1, \h03AC>>, <<\h0388, \h038A, 1, \h03AD>>, <<\h038C, \h038C, 1, \h03CC>>,
    <<\h038E, \h038F, 1, \h03CD>>, <<\h0391, \h03A1, 1, \h03B1>>, <<\h03A3, \h03AB, 1, \h03C3>>,
    <<\h03CF, \h03CF, 1, \h03D7>>, <<\h03D8, \h03EE, 2, \h03D9>>, <<\h03F4, \h03F4, 1, \h03B8>>,
    <<\h03F7, \h03F7, 1, \h03F8>>, <<\h03F9, \h03F9, 1, \h03F2>>, <<\h03FA, \h03FA, 1, \h03FB>>,
    <<\h03FD, \h03FF, 1, \h037B>>, <<\h0400, \h040F, 1, \h0450>>, <<\h0410, \h042F, 1, \h0430>>,
    <<\h0460, \h0480, 2, \h0461>>, <<\h048A, \h04BE, 2, \h048B>>, <<\h04C0, \h04C0, 1, \h04CF>>,
    <<\h04C1, \h04CD, 2, \h04C2>>, <<\h04D0, \h052E, 2, \h04D1>>, <<\h0531, \h0556, 1, \h0561>>,
    <<\h10A0, \h10C5, 1, \h2D00>>, <<\h10C7, \h10C7, 1, \h2D27>>, <<\h10CD, \h10CD, 1, \h2D2D>>,
    <<\h13A0, \h13EF, 1, \hAB70>>, <<\h13F0, \h13F5, 1, \h13F8>>, <<\h1C89, \h1C89, 1, \h1C8A>>,
    <<\h1C90, \h1CBA, 1, \h10D0>>, <<\h1CBD, \h1CBF, 1, \h10FD>>, <<\h1E00, \h1E94, 2, \h1E01>>,
    <<\h1E9E, \h1E9E, 1, \h00DF>>, <<\h1EA0, \h1EFE, 2, \h1EA1>>, <<\h1F08, \h1F0F, 1, \h1F00>>,
    <<\h1F18, \h1F1D, 1, \h1F10>>, <<\h1F28, \h1F2F, 1, \h1F20>>, <<\h1F38, \h1F3F, 1, \h1F30>>,
    <<\h1F48, \h1F4D, 1, \h1F40>>, <<\h1F59, \h1F5F, 2, \h1F51>>, <<\h1F68, \h1F6F, 1, \h1F60>>,
    <<\h1F88, \h1F8F, 1, \h1F80>>, <<\h1F98, \h1F9F, 1, \h1F90>>, <<\h1FA8, \h1FAF, 1, \h1FA0>>,
    <<\h1FB8, \h1FB9, 1, \h1FB0>>, <<\h1FBA, \h1FBB, 1, \h1F70>>, <<\h1FBC, \h1FBC, 1, \h1FB3>>,
    <<\h1FC8, \h1FCB, 1, \h1F72>>, <<\h1FCC, \h1FCC, 1, \h1FC3>>, <<\h1FD8, \h1FD9, 1, \h1FD0>>,
    <<\h1FDA, \h1FDB, 1, \h1F76>>, <<\h1FE8, \h1FE9, 1, \h1FE0>>, <<\h1FEA, \h1FEB, 1, \h1F7A>>,
    <<\h1FEC, \h1FEC, 1, \h1FE5>>, <<\h1FF8, \h1FF9, 1, \h1F78>>, <<\h1FFA, \h1FFB, 1, \h1F7C>>,
    <<\h1FFC, \h1FFC, 1, \h1FF3>>, <<\h2126, \h2126, 1, \h03C9>>, <<\h212A, \h212A, 1, \h006B>>,
    <<\h212B, \h212B, 1, \h00E5>>, <<\h2132, \h2132, 1, \h214E>>, <<\h2160, \h216F, 1, \h2170>>,
    <<\h2183, \h2183, 1, \h2184>>, <<\h24B6, \h24CF, 1, \h24D0>>, <<\h2C00, \h2C2F, 1, \h2C30>>,
    <<\h2C60, \h2C60, 1, \h2C61>>, <<\h2C62, \h2C62, 1, \h026B>>, <<\h2C63, \h2C63, 1, \h1D7D>>,
    <<\h2C64, \h2C64, 1, \h027D>>, <<\h2C67, \h2C6B, 2, \h2C68>>, <<\h2C6D, \h2C6D, 1, \h0251>>,
    <<\h2C6E, \h2C6E, 1, \h0271>>, <<\h2C6F, \h2C6F, 1, \h0250>>, <<\h2C70, \h2C70, 1, \h0252>>,
    <<\h2C72, \h2C72, 1, \h2C73>>, <<\h2C75, \h2C75, 1, \h2C76>>, <<\h2C7E, \h2C7F, 1, \h023F>>,
    <<\h2C80, \h2CE2, 2, \h2C81>>, <<\h2CEB, \h2CED, 2, \h2CEC>>, <<\h2CF2, \h2CF2, 1, \h2CF3>>,
    <<\hA640, \hA66C, 2, \hA641>>, <<\hA680, \hA69A, 2, \hA681>>, <<\hA722, \hA72E, 2, \hA723>>,
    <<\hA732, \hA76E, 2, \hA733>>, <<\hA779, \hA77B, 2, \hA77A>>, <<\hA77D, \hA77D, 1, \h1D79>>,
    <<\hA77E, \hA786, 2, \hA77F>>, <<\hA78B, \hA78B, 1, \hA78C>>, <<\hA78D, \hA78D, 1, \h0265>>,
    <<\hA790, \hA792, 2, \hA791>>, <<\hA796, \hA7A8, 2, \hA797>>, <<\hA7AA, \hA7AA, 1, \h0266>>,
    <<\hA7AB, \hA7AB, 1, \h025C>>, <<\hA7AC, \hA7AC, 1, \h0261>>, <<\hA7AD, \hA7AD, 1, \h026C>>,
    <<\hA7AE, \hA7AE, 1, \h026A>>, <<\hA7B0, \hA7B0, 1, \h029E>>, <<\hA7B1, \hA7B1, 1, \h0287>>,
    <<\hA7B2, \hA7B2, 1, \h029D>>, <<\hA7B3, \hA7B3, 1, \hAB53>>, <<\hA7B4, \hA7C2, 2, \hA7B5>>,
    <<\hA7C4, \hA7C4, 1, \hA794>>, <<\hA7C5, \hA7C5, 1, \h0282>>, <<\hA7C6, \hA7C6, 1, \h1D8E>>,
    <<\hA7C7, \hA7C9, 2, \hA7C8>>, <<\hA7CB, \hA7CB, 1, \h0264>>, <<\hA7CC, \hA7DA, 2, \hA7CD>>,
    <<\hA7DC, \hA7DC, 1, \h019B>>, <<\hA7F5, \hA7F5, 1, \hA7F6>>, <<\hFF21, \hFF3A, 1, \hFF41>>,
    <<\h10400, \h10427, 1, \h10428>>, <<\h104B0, \h104D3, 1, \h104D8>>,
    <<\h10570, \h1057A, 1, \h10597>>, <<\h1057C, \h1058A, 1, \h105A3>>,
    <<\h1058C, \h10592, 1, \h105B3>>, <<\h10594, \h10595, 1, \h105BB>>,
    <<\h10C80, \h10CB2, 1, \h10CC0>>, <<\h10D50, \h10D65, 1, \h10D70>>,
    <<\h118A0, \h118BF, 1, \h118C0>>, <<\h16E40, \h16E5F, 1, \h16E60>>,
    <<\h16EA0, \h16EB8, 1, \h16EBB>>, <<\h1E900, \h1E921, 1, \h1E922>> >>

\* the code points of the property Cased, in runs <<first, last>>
CASED == <<
    <<\h0041, \h005A>>, <<\h0061, \h007A>>, <<\h00AA, \h00AA>>, <<\h00B5, \h00B5>>,
    <<\h00BA, \h00BA>>, <<\h00C0, \h00D6>>, <<\h00D8, \h00F6>>, <<\h00F8, \h01BA>>,
    <<\h01BC, \h01BF>>, <<\h01C4, \h0293>>, <<\h0296, \h02B8>>, <<\h02C0, \h02C1>>,
    <<\h02E0, \h02E4>>, <<\h0345, \h0345>>, <<\h0370, \h0373>>, <<\h0376, \h0377>>,
    <<\h037A, \h037D>>, <<\h037F, \h037F>>, <<\h0386, \h0386>>, <<\h0388, \h038A>>,
    <<\h038C, \h038C>>, <<\h038E, \h03A1>>, <<\h03A3, \h03F5>>, <<\h03F7, \h0481>>,
    <<\h048A, \h052F>>, <<\h0531, \h0556>>, <<\h0560, \h0588>>, <<\h10A0, \h10C5>>,
    <<\h10C7, \h10C7>>, <<\h10CD, \h10CD>>, <<\h10D0, \h10FA>>, <<\h10FC, \h10FF>>,
    <<\h13A0, \h13F5>>, <<\h13F8, \h13FD>>, <<\h1C80, \h1C8A>>, <<\h1C90, \h1CBA>>,
    <<\h1CBD, \h1CBF>>, <<\h1D00, \h1DBF>>, <<\h1E00, \h1F15>>, <<\h1F18, \h1F1D>>,
    <<\h1F20, \h1F45>>, <<\h1F48, \h1F4D>>, <<\h1F50, \h1F57>>, <<\h1F59, \h1F59>>,
    <<\h1F5B, \h1F5B>>, <<\h1F5D, \h1F5D>>, <<\h1F5F, \h1F7D>>, <<\h1F80, \h1FB4>>,
    <<\h1FB6, \h1FBC>>, <<\h1FBE, \h1FBE>>, <<\h1FC2, \h1FC4>>, <<\h1FC6, \h1FCC>>,
    <<\h1FD0, \h1FD3>>, <<\h1FD6, \h1FDB>>, <<\h1FE0, \h1FEC>>, <<\h1FF2, \h1FF4>>,
    <<\h1FF6, \h1FFC>>, <<\h2071, \h2071>>, <<\h207F, \h207F>>, <<\h2090, \h209C>>,
    <<\h2102, \h2102>>, <<\h2107, \h2107>>, <<\h210A, \h2113>>, <<\h2115, \h2115>>,
    <<\h2119, \h211D>>, <<\h2124, \h2124>>, <<\h2126, \h2126>>, <<\h2128, \h2128>>,
    <<\h212A, \h212D>>, <<\h212F, \h2134>>, <<\h2139, \h2139>>, <<\h213C, \h213F>>,
    <<\h2145, \h2149>>, <<\h214E, \h214E>>, <<\h2160, \h217F>>, <<\h2183, \h2184>>,
    <<\h24B6, \h24E9>>, <<\h2C00, \h2CE4>>, <<\h2CEB, \h2CEE>>, <<\h2CF2, \h2CF3>>,
    <<\h2D00, \h2D25>>, <<\h2D27, \h2D27>>, <<\h2D2D, \h2D2D>>, <<\hA640, \hA66D>>,
    <<\hA680, \hA69D>>, <<\hA722, \hA787>>, <<\hA78B, \hA78E>>, <<\hA790, \hA7DC>>,
    <<\hA7F1, \hA7F6>>, <<\hA7F8, \hA7FA>>, <<\hAB30, \hAB5A>>, <<\hAB5C, \hAB69>>,
    <<\hAB70, \hABBF>>, <<\hFB00, \hFB06>>, <<\hFB13, \hFB17>>, <<\hFF21, \hFF3A>>,
    <<\hFF41, \hFF5A>>, <<\h10400, \h1044F>>, <<\h104B0, \h104D3>>, <<\h104D8, \h104FB>>,
    <<\h10570, \h1057A>>, <<\h1057C, \h1058A>>, <<\h1058C, \h10592>>, <<\h10594, \h10595>>,
    <<\h10597, \h105A1>>, <<\h105A3, \h105B1>>, <<\h105B3, \h105B9>>, <<\h105BB, \h105BC>>,
    <<\h10780, \h10780>>, <<\h10783, \h10785>>, <<\h10787, \h107B0>>, <<\h107B2, \h107BA>>,
    <<\h10C80, \h10CB2>>, <<\h10CC0, \h10CF2>>, <<\h10D50, \h10D65>>, <<\h10D70, \h10D85>>,
    <<\h118A0, \h118DF>>, <<\h16E40, \h16E7F>>, <<\h16EA0, \h16EB8>>, <<\h16EBB, \h16ED3>>,
    <<\h1D400, \h1D454>>, <<\h1D456, \h1D49C>>, <<\h1D49E, \h1D49F>>, <<\h1D4A2, \h1D4A2>>,
    <<\h1D4A5, \h1D4A6>>, <<\h1D4A9, \h1D4AC>>, <<\h1D4AE, \h1D4B9>>, <<\h1D4BB, \h1D4BB>>,
    <<\h1D4BD, \h1D4C3>>, <<\h1D4C5, \h1D505>>, <<\h1D507, \h1D50A>>, <<\h1D50D, \h1D514>>,
    <<\h1D516, \h1D51C>>, <<\h1D51E, \h1D539>>, <<\h1D53B, \h1D53E>>, <<\h1D540, \h1D544>>,
    <<\h1D546, \h1D546>>, <<\h1D54A, \h1D550>>, <<\h1D552, \h1D6A5>>, <<\h1D6A8, \h1D6C0>>,
    <<\h1D6C2, \h1D6DA>>, <<\h1D6DC, \h1D6FA>>, <<\h1D6FC, \h1D714>>, <<\h1D716, \h1D734>>,
    <<\h1D736, \h1D74E>>, <<\h1D750, \h1D76E>>, <<\h1D770, \h1D788>>, <<\h1D78A, \h1D7A8>>,
    <<\h1D7AA, \h1D7C2>>, <<\h1D7C4, \h1D7CB>>, <<\h1DF00, \h1DF09>>, <<\h1DF0B, \h1DF1E>>,
    <<\h1DF25, \h1DF2A>>, <<\h1E030, \h1E06D>>, <<\h1E900, \h1E943>>, <<\h1F130, \h1F149>>,
    <<\h1F150, \h1F169>>, <<\h1F170, \h1F189>> >>

\* the code points of the property Case_Ignorable
CASE_IGNORABLE == <<
    <<\h0027, \h0027>>, <<\h002E, \h002E>>, <<\h003A, \h003A>>, <<\h005E, \h005E>>,
    <<\h0060, \h0060>>, <<\h00A8, \h00A8>>, <<\h00AD, \h00AD>>, <<\h00AF, \h00AF>>,
    <<\h00B4, \h00B4>>, <<\h00B7, \h00B8>>, <<\h02B0, \h036F>>, <<\h0374, \h0375>>,
    <<\h037A, \h037A>>, <<\h0384, \h0385>>, <<\h0387, \h0387>>, <<\h0483, \h0489>>,
    <<\h0559, \h0559>>, <<\h055F, \h055F>>, <<\h0591, \h05BD>>, <<\h05BF, \h05BF>>,
    <<\h05C1, \h05C2>>, <<\h05C4, \h05C5>>, <<\h05C7, \h05C7>>, <<\h05F4, \h05F4>>,
    <<\h0600, \h0605>>, <<\h0610, \h061A>>, <<\h061C, \h061C>>, <<\h0640, \h0640>>,
    <<\h064B, \h065F>>, <<\h0670, \h0670>>, <<\h06D6, \h06DD>>, <<\h06DF, \h06E8>>,
    <<\h06EA, \h06ED>>, <<\h070F, \h070F>>, <<\h0711, \h0711>>, <<\h0730, \h074A>>,
    <<\h07A6, \h07B0>>, <<\h07EB, \h07F5>>, <<\h07FA, \h07FA>>, <<\h07FD, \h07FD>>,
    <<\h0816, \h082D>>, <<\h0859, \h085B>>, <<\h0888, \h0888>>, <<\h0890, \h0891>>,
    <<\h0897, \h089F>>, <<\h08C9, \h0902>>, <<\h093A, \h093A>>, <<\h093C, \h093C>>,
    <<\h0941, \h0948>>, <<\h094D, \h094D>>, <<\h0951, \h0957>>, <<\h0962, \h0963>>,
    <<\h0971, \h0971>>, <<\h0981, \h0981>>, <<\h09BC, \h09BC>>, <<\h09C1, \h09C4>>,
    <<\h09CD, \h09CD>>, <<\h09E2, \h09E3>>, <<\h09FE, \h09FE>>, <<\h0A01, \h0A02>>,
    <<\h0A3C, \h0A3C>>, <<\h0A41, \h0A42>>, <<\h0A47, \h0A48>>, <<\h0A4B, \h0A4D>>,
    <<\h0A51, \h0A51>>, <<\h0A70, \h0A71>>, <<\h0A75, \h0A75>>, <<\h0A81, \h0A82>>,
    <<\h0ABC, \h0ABC>>, <<\h0AC1, \h0AC5>>, <<\h0AC7, \h0AC8>>, <<\h0ACD, \h0ACD>>,
    <<\h0AE2, \h0AE3>>, <<\h0AFA, \h0AFF>>, <<\h0B01, \h0B01>>, <<\h0B3C, \h0B3C>>,
    <<\h0B3F, \h0B3F>>, <<\h0B41, \h0B44>>, <<\h0B4D, \h0B4D>>, <<\h0B55, \h0B56>>,
    <<\h0B62, \h0B63>>, <<\h0B82, \h0B82>>, <<\h0BC0, \h0BC0>>, <<\h0BCD, \h0BCD>>,
    <<\h0C00, \h0C00>>, <<\h0C04, \h0C04>>, <<\h0C3C, \h0C3C>>, <<\h0C3E, \h0C40>>,
    <<\h0C46, \h0C48>>, <<\h0C4A, \h0C4D>>, <<\h0C55, \h0C56>>, <<\h0C62, \h0C63>>,
    <<\h0C81, \h0C81>>, <<\h0CBC, \h0CBC>>, <<\h0CBF, \h0CBF>>, <<\h0CC6, \h0CC6>>,
    <<\h0CCC, \h0CCD>>, <<\h0CE2, \h0CE3>>, <<\h0D00, \h0D01>>, <<\h0D3B, \h0D3C>>,
    <<\h0D41, \h0D44>>, <<\h0D4D, \h0D4D>>, <<\h0D62, \h0D63>>, <<\h0D81, \h0D81>>,
    <<\h0DCA, \h0DCA>>, <<\h0DD2, \h0DD4>>, <<\h0DD6, \h0DD6>>, <<\h0E31, \h0E31>>,
    <<\h0E34, \h0E3A>>, <<\h0E46, \h0E4E>>, <<\h0EB1, \h0EB1>>, <<\h0EB4, \h0EBC>>,
    <<\h0EC6, \h0EC6>>, <<\h0EC8, \h0ECE>>, <<\h0F18, \h0F19>>, <<\h0F35, \h0F35>>,
    <<\h0F37, \h0F37>>, <<\h0F39, \h0F39>>, <<\h0F71, \h0F7E>>, <<\h0F80, \h0F84>>,
    <<\h0F86, \h0F87>>, <<\h0F8D, \h0F97>>, <<\h0F99, \h0FBC>>, <<\h0FC6, \h0FC6>>,
    <<\h102D, \h1030>>, <<\h1032, \h1037>>, <<\h1039, \h103A>>, <<\h103D, \h103E>>,
    <<\h1058, \h1059>>, <<\h105E, \h1060>>, <<\h1071, \h1074>>, <<\h1082, \h1082>>,
    <<\h1085, \h1086>>, <<\h108D, \h108D>>, <<\h109D, \h109D>>, <<\h10FC, \h10FC>>,
    <<\h135D, \h135F>>, <<\h1712, \h1714>>, <<\h1732, \h1733>>, <<\h1752, \h1753>>,
    <<\h1772, \h1773>>, <<\h17B4, \h17B5>>, <<\h17B7, \h17BD>>, <<\h17C6, \h17C6>>,
    <<\h17C9, \h17D3>>, <<\h17D7, \h17D7>>, <<\h17DD, \h17DD>>, <<\h180B, \h180F>>,
    <<\h1843, \h1843>>, <<\h1885, \h1886>>, <<\h18A9, \h18A9>>, <<\h1920, \h1922>>,
    <<\h1927, \h1928>>, <<\h1932, \h1932>>, <<\h1939, \h193B>>, <<\h1A17, \h1A18>>,
    <<\h1A1B, \h1A1B>>, <<\h1A56, \h1A56>>, <<\h1A58, \h1A5E>>, <<\h1A60, \h1A60>>,
    <<\h1A62, \h1A62>>, <<\h1A65, \h1A6C>>, <<\h1A73, \h1A7C>>, <<\h1A7F, \h1A7F>>,
    <<\h1AA7, \h1AA7>>, <<\h1AB0, \h1ADD>>, <<\h1AE0, \h1AEB>>, <<\h1B00, \h1B03>>,
    <<\h1B34, \h1B34>>, <<\h1B36, \h1B3A>>, <<\h1B3C, \h1B3C>>, <<\h1B42, \h1B42>>,
    <<\h1B6B, \h1B73>>, <<\h1B80, \h1B81>>, <<\h1BA2, \h1BA5>>, <<\h1BA8, \h1BA9>>,
    <<\h1BAB, \h1BAD>>, <<\h1BE6, \h1BE6>>, <<\h1BE8, \h1BE9>>, <<\h1BED, \h1BED>>,
    <<\h1BEF, \h1BF1>>, <<\h1C2C, \h1C33>>, <<\h1C36, \h1C37>>, <<\h1C78, \h1C7D>>,
    <<\h1CD0, \h1CD2>>, <<\h1CD4, \h1CE0>>, <<\h1CE2, \h1CE8>>, <<\h1CED, \h1CED>>,
    <<\h1CF4, \h1CF4>>, <<\h1CF8, \h1CF9>>, <<\h1D2C, \h1D6A>>, <<\h1D78, \h1D78>>,
    <<\h1D9B, \h1DFF>>, <<\h1FBD, \h1FBD>>, <<\h1FBF, \h1FC1>>, <<\h1FCD, \h1FCF>>,
    <<\h1FDD, \h1FDF>>, <<\h1FED, \h1FEF>>, <<\h1FFD, \h1FFE>>, <<\h200B, \h200F>>,
    <<\h2018, \h2019>>, <<\h2024, \h2024>>, <<\h2027, \h2027>>, <<\h202A, \h202E>>,
    <<\h2060, \h2064>>, <<\h2066, \h206F>>, <<\h2071, \h2071>>, <<\h207F, \h207F>>,
    <<\h2090, \h209C>>, <<\h20D0, \h20F0>>, <<\h2C7C, \h2C7D>>, <<\h2CEF, \h2CF1>>,
    <<\h2D6F, \h2D6F>>, <<\h2D7F, \h2D7F>>, <<\h2DE0, \h2DFF>>, <<\h2E2F, \h2E2F>>,
    <<\h3005, \h3005>>, <<\h302A, \h302D>>, <<\h3031, \h3035>>, <<\h303B, \h303B>>,
    <<\h3099, \h309E>>, <<\h30FC, \h30FE>>, <<\hA015, \hA015>>, <<\hA4F8, \hA4FD>>,
    <<\hA60C, \hA60C>>, <<\hA66F, \hA672>>, <<\hA674, \hA67D>>, <<\hA67F, \hA67F>>,
    <<\hA69C, \hA69F>>, <<\hA6F0, \hA6F1>>, <<\hA700, \hA721>>, <<\hA770, \hA770>>,
    <<\hA788, \hA78A>>, <<\hA7F1, \hA7F4>>, <<\hA7F8, \hA7F9>>, <<\hA802, \hA802>>,
    <<\hA806, \hA806>>, <<\hA80B, \hA80B>>, <<\hA825, \hA826>>, <<\hA82C, \hA82C>>,
    <<\hA8C4, \hA8C5>>, <<\hA8E0, \hA8F1>>, <<\hA8FF, \hA8FF>>, <<\hA926, \hA92D>>,
    <<\hA947, \hA951>>, <<\hA980, \hA982>>, <<\hA9B3, \hA9B3>>, <<\hA9B6, \hA9B9>>,
    <<\hA9BC, \hA9BD>>, <<\hA9CF, \hA9CF>>, <<\hA9E5, \hA9E6>>, <<\hAA29, \hAA2E>>,
    <<\hAA31, \hAA32>>, <<\hAA35, \hAA36>>, <<\hAA43, \hAA43>>, <<\hAA4C, \hAA4C>>,
    <<\hAA70, \hAA70>>, <<\hAA7C, \hAA7C>>, <<\hAAB0, \hAAB0>>, <<\hAAB2, \hAAB4>>,
    <<\hAAB7, \hAAB8>>, <<\hAABE, \hAABF>>, <<\hAAC1, \hAAC1>>, <<\hAADD, \hAADD>>,
    <<\hAAEC, \hAAED>>, <<\hAAF3, \hAAF4>>, <<\hAAF6, \hAAF6>>, <<\hAB5B, \hAB5F>>,
    <<\hAB69, \hAB6B>>, <<\hABE5, \hABE5>>, <<\hABE8, \hABE8>>, <<\hABED, \hABED>>,
    <<\hFB1E, \hFB1E>>, <<\hFBB2, \hFBC2>>, <<\hFE00, \hFE0F>>, <<\hFE13, \hFE13>>,
    <<\hFE20, \hFE2F>>, <<\hFE52, \hFE52>>, <<\hFE55, \hFE55>>, <<\hFEFF, \hFEFF>>,
    <<\hFF07, \hFF07>>, <<\hFF0E, \hFF0E>>, <<\hFF1A, \hFF1A>>, <<\hFF3E, \hFF3E>>,
    <<\hFF40, \hFF40>>, <<\hFF70, \hFF70>>, <<\hFF9E, \hFF9F>>, <<\hFFE3, \hFFE3>>,
    <<\hFFF9, \hFFFB>>, <<\h101FD, \h101FD>>, <<\h102E0, \h102E0>>, <<\h10376, \h1037A>>,
    <<\h10780, \h10785>>, <<\h10787, \h107B0>>, <<\h107B2, \h107BA>>, <<\h10A01, \h10A03>>,
    <<\h10A05, \h10A06>>, <<\h10A0C, \h10A0F>>, <<\h10A38, \h10A3A>>, <<\h10A3F, \h10A3F>>,
    <<\h10AE5, \h10AE6>>, <<\h10D24, \h10D27>>, <<\h10D4E, \h10D4E>>, <<\h10D69, \h10D6D>>,
    <<\h10D6F, \h10D6F>>, <<\h10EAB, \h10EAC>>, <<\h10EC5, \h10EC5>>, <<\h10EFA, \h10EFF>>,
    <<\h10F46, \h10F50>>, <<\h10F82, \h10F85>>, <<\h11001, \h11001>>, <<\h11038, \h11046>>,
    <<\h11070, \h11070>>, <<\h11073, \h11074>>, <<\h1107F, \h11081>>, <<\h110B3, \h110B6>>,
    <<\h110B9, \h110BA>>, <<\h110BD, \h110BD>>, <<\h110C2, \h110C2>>, <<\h110CD, \h110CD>>,
    <<\h11100, \h11102>>, <<\h11127, \h1112B>>, <<\h1112D, \h11134>>, <<\h11173, \h11173>>,
    <<\h11180, \h11181>>, <<\h111B6, \h111BE>>, <<\h111C9, \h111CC>>, <<\h111CF, \h111CF>>,
    <<\h1122F, \h11231>>, <<\h11234, \h11234>>, <<\h11236, \h11237>>, <<\h1123E, \h1123E>>,
    <<\h11241, \h11241>>, <<\h112DF, \h112DF>>, <<\h112E3, \h112EA>>, <<\h11300, \h11301>>,
    <<\h1133B, \h1133C>>, <<\h11340, \h11340>>, <<\h11366, \h1136C>>, <<\h11370, \h11374>>,
    <<\h113BB, \h113C0>>, <<\h113CE, \h113CE>>, <<\h113D0, \h113D0>>, <<\h113D2, \h113D2>>,
    <<\h113E1, \h113E2>>, <<\h11438, \h1143F>>, <<\h11442, \h11444>>, <<\h11446, \h11446>>,
    <<\h1145E, \h1145E>>, <<\h114B3, \h114B8>>, <<\h114BA, \h114BA>>, <<\h114BF, \h114C0>>,
    <<\h114C2, \h114C3>>, <<\h115B2, \h115B5>>, <<\h115BC, \h115BD>>, <<\h115BF, \h115C0>>,
    <<\h115DC, \h115DD>>, <<\h11633, \h1163A>>, <<\h1163D, \h1163D>>, <<\h1163F, \h11640>>,
    <<\h116AB, \h116AB>>, <<\h116AD, \h116AD>>, <<\h116B0, \h116B5>>, <<\h116B7, \h116B7>>,
    <<\h1171D, \h1171D>>, <<\h1171F, \h1171F>>, <<\h11722, \h11725>>, <<\h11727, \h1172B>>, <<\h1182F, \h11837>>,
    <<\h11839, \h1183A>>, <<\h1193B, \h1193C>>, <<\h1193E, \h1193E>>, <<\h11943, \h11943>>,
    <<\h119D4, \h119D7>>, <<\h119DA, \h119DB>>, <<\h119E0, \h119E0>>, <<\h11A01, \h11A0A>>,
    <<\h11A33, \h11A38>>, <<\h11A3B, \h11A3E>>, <<\h11A47, \h11A47>>, <<\h11A51, \h11A56>>,
    <<\h11A59, \h11A5B>>, <<\h11A8A, \h11A96>>, <<\h11A98, \h11A99>>, <<\h11B60, \h11B60>>,
    <<\h11B62, \h11B64>>, <<\h11B66, \h11B66>>, <<\h11C30, \h11C36>>, <<\h11C38, \h11C3D>>,
    <<\h11C3F, \h11C3F>>, <<\h11C92, \h11CA7>>, <<\h11CAA, \h11CB0>>, <<\h11CB2, \h11CB3>>,
    <<\h11CB5, \h11CB6>>, <<\h11D31, \h11D36>>, <<\h11D3A, \h11D3A>>, <<\h11D3C, \h11D3D>>,
    <<\h11D3F, \h11D45>>, <<\h11D47, \h11D47>>, <<\h11D90, \h11D91>>, <<\h11D95, \h11D95>>,
    <<\h11D97, \h11D97>>, <<\h11DD9, \h11DD9>>, <<\h11EF3, \h11EF4>>, <<\h11F00, \h11F01>>,
    <<\h11F36, \h11F3A>>, <<\h11F40, \h11F40>>, <<\h11F42, \h11F42>>, <<\h11F5A, \h11F5A>>, <<\h13430, \h13440>>,
    <<\h13447, \h13455>>, <<\h1611E, \h16129>>, <<\h1612D, \h1612F>>, <<\h16AF0, \h16AF4>>,
    <<\h16B30, \h16B36>>, <<\h16B40, \h16B43>>, <<\h16D40, \h16D42>>, <<\h16D6B, \h16D6C>>,
    <<\h16F4F, \h16F4F>>, <<\h16F8F, \h16F9F>>, <<\h16FE0, \h16FE1>>, <<\h16FE3, \h16FE4>>,
    <<\h16FF2, \h16FF3>>, <<\h1AFF0, \h1AFF3>>, <<\h1AFF5, \h1AFFB>>, <<\h1AFFD, \h1AFFE>>,
    <<\h1BC9D, \h1BC9E>>, <<\h1BCA0, \h1BCA3>>, <<\h1CF00, \h1CF2D>>, <<\h1CF30, \h1CF46>>,
    <<\h1D167, \h1D169>>, <<\h1D173, \h1D182>>, <<\h1D185, \h1D18B>>, <<\h1D1AA, \h1D1AD>>,
    <<\h1D242, \h1D244>>, <<\h1DA00, \h1DA36>>, <<\h1DA3B, \h1DA6C>>, <<\h1DA75, \h1DA75>>,
    <<\h1DA84, \h1DA84>>, <<\h1DA9B, \h1DA9F>>, <<\h1DAA1, \h1DAAF>>, <<\h1E000, \h1E006>>,
    <<\h1E008, \h1E018>>, <<\h1E01B, \h1E021>>, <<\h1E023, \h1E024>>, <<\h1E026, \h1E02A>>,
    <<\h1E030, \h1E06D>>, <<\h1E08F, \h1E08F>>, <<\h1E130, \h1E13D>>, <<\h1E2AE, \h1E2AE>>,
    <<\h1E2EC, \h1E2EF>>, <<\h1E4EB, \h1E4EF>>, <<\h1E5EE, \h1E5EF>>, <<\h1E6E3, \h1E6E3>>,
    <<\h1E6E6, \h1E6E6>>, <<\h1E6EE, \h1E6EF>>, <<\h1E6F5, \h1E6F5>>, <<\h1E6FF, \h1E6FF>>,
    <<\h1E8D0, \h1E8D6>>, <<\h1E944, \h1E94B>>, <<\h1F3FB, \h1F3FF>>, <<\hE0001, \hE0001>>,
    <<\hE0020, \hE007F>>, <<\hE0100, \hE01EF>> >>

\* the code points of the property ID_Start
ID_START == <<
    <<\h0041, \h005A>>, <<\h0061, \h007A>>, <<\h00AA, \h00AA>>, <<\h00B5, \h00B5>>,
    <<\h00BA, \h00BA>>, <<\h00C0, \h00D6>>, <<\h00D8, \h00F6>>, <<\h00F8, \h02C1>>,
    <<\h02C6, \h02D1>>, <<\h02E0, \h02E4>>, <<\h02EC, \h02EC>>, <<\h02EE, \h02EE>>,
    <<\h0370, \h0374>>, <<\h0376, \h0377>>, <<\h037A, \h037D>>, <<\h037F, \h037F>>,
    <<\h0386, \h0386>>, <<\h0388, \h038A>>, <<\h038C, \h038C>>, <<\h038E, \h03A1>>,
    <<\h03A3, \h03F5>>, <<\h03F7, \h0481>>, <<\h048A, \h052F>>, <<\h0531, \h0556>>,
    <<\h0559, \h0559>>, <<\h0560, \h0588>>, <<\h05D0, \h05EA>>, <<\h05EF, \h05F2>>,
    <<\h0620, \h064A>>, <<\h066E, \h066F>>, <<\h0671, \h06D3>>, <<\h06D5, \h06D5>>,
    <<\h06E5, \h06E6>>, <<\h06EE, \h06EF>>, <<\h06FA, \h06FC>>, <<\h06FF, \h06FF>>,
    <<\h0710, \h0710>>, <<\h0712, \h072F>>, <<\h074D, \h07A5>>, <<\h07B1, \h07B1>>,
    <<\h07CA, \h07EA>>, <<\h07F4, \h07F5>>, <<\h07FA, \h07FA>>, <<\h0800, \h0815>>,
    <<\h081A, \h081A>>, <<\h0824, \h0824>>, <<\h0828, \h0828>>, <<\h0840, \h0858>>,
    <<\h0860, \h086A>>, <<\h0870, \h0887>>, <<\h0889, \h088F>>, <<\h08A0, \h08C9>>,
    <<\h0904, \h0939>>, <<\h093D, \h093D>>, <<\h0950, \h0950>>, <<\h0958, \h0961>>,
    <<\h0971, \h0980>>, <<\h0985, \h098C>>, <<\h098F, \h0990>>, <<\h0993, \h09A8>>,
    <<\h09AA, \h09B0>>, <<\h09B2, \h09B2>>, <<\h09B6, \h09B9>>, <<\h09BD, \h09BD>>,
    <<\h09CE, \h09CE>>, <<\h09DC, \h09DD>>, <<\h09DF, \h09E1>>, <<\h09F0, \h09F1>>,
    <<\h09FC, \h09FC>>, <<\h0A05, \h0A0A>>, <<\h0A0F, \h0A10>>, <<\h0A13, \h0A28>>,
    <<\h0A2A, \h0A30>>, <<\h0A32, \h0A33>>, <<\h0A35, \h0A36>>, <<\h0A38, \h0A39>>,
    <<\h0A59, \h0A5C>>, <<\h0A5E, \h0A5E>>, <<\h0A72, \h0A74>>, <<\h0A85, \h0A8D>>,
    <<\h0A8F, \h0A91>>, <<\h0A93, \h0AA8>>, <<\h0AAA, \h0AB0>>, <<\h0AB2, \h0AB3>>,
    <<\h0AB5, \h0AB9>>, <<\h0ABD, \h0ABD>>, <<\h0AD0, \h0AD0>>, <<\h0AE0, \h0AE1>>,
    <<\h0AF9, \h0AF9>>, <<\h0B05, \h0B0C>>, <<\h0B0F, \h0B10>>, <<\h0B13, \h0B28>>,
    <<\h0B2A, \h0B30>>, <<\h0B32, \h0B33>>, <<\h0B35, \h0B39>>, <<\h0B3D, \h0B3D>>,
    <<\h0B5C, \h0B5D>>, <<\h0B5F, \h0B61>>, <<\h0B71, \h0B71>>, <<\h0B83, \h0B83>>,
    <<\h0B85, \h0B8A>>, <<\h0B8E, \h0B90>>, <<\h0B92, \h0B95>>, <<\h0B99, \h0B9A>>,
    <<\h0B9C, \h0B9C>>, <<\h0B9E, \h0B9F>>, <<\h0BA3, \h0BA4>>, <<\h0BA8, \h0BAA>>,
    <<\h0BAE, \h0BB9>>, <<\h0BD0, \h0BD0>>, <<\h0C05, \h0C0C>>, <<\h0C0E, \h0C10>>,
    <<\h0C12, \h0C28>>, <<\h0C2A, \h0C39>>, <<\h0C3D, \h0C3D>>, <<\h0C58, \h0C5A>>,
    <<\h0C5C, \h0C5D>>, <<\h0C60, \h0C61>>, <<\h0C80, \h0C80>>, <<\h0C85, \h0C8C>>,
    <<\h0C8E, \h0C90>>, <<\h0C92, \h0CA8>>, <<\h0CAA, \h0CB3>>, <<\h0CB5, \h0CB9>>,
    <<\h0CBD, \h0CBD>>, <<\h0CDC, \h0CDE>>, <<\h0CE0, \h0CE1>>, <<\h0CF1, \h0CF2>>,
    <<\h0D04, \h0D0C>>, <<\h0D0E, \h0D10>>, <<\h0D12, \h0D3A>>, <<\h0D3D, \h0D3D>>,
    <<\h0D4E, \h0D4E>>, <<\h0D54, \h0D56>>, <<\h0D5F, \h0D61>>, <<\h0D7A, \h0D7F>>,
    <<\h0D85, \h0D96>>, <<\h0D9A, \h0DB1>>, <<\h0DB3, \h0DBB>>, <<\h0DBD, \h0DBD>>,
    <<\h0DC0, \h0DC6>>, <<\h0E01, \h0E30>>, <<\h0E32, \h0E33>>, <<\h0E40, \h0E46>>,
    <<\h0E81, \h0E82>>, <<\h0E84, \h0E84>>, <<\h0E86, \h0E8A>>, <<\h0E8C, \h0EA3>>,
    <<\h0EA5, \h0EA5>>, <<\h0EA7, \h0EB0>>, <<\h0EB2, \h0EB3>>, <<\h0EBD, \h0EBD>>,
    <<\h0EC0, \h0EC4>>, <<\h0EC6, \h0EC6>>, <<\h0EDC, \h0EDF>>, <<\h0F00, \h0F00>>,
    <<\h0F40, \h0F47>>, <<\h0F49, \h0F6C>>, <<\h0F88, \h0F8C>>, <<\h1000, \h102A>>,
    <<\h103F, \h103F>>, <<\h1050, \h1055>>, <<\h105A, \h105D>>, <<\h1061, \h1061>>,
    <<\h1065, \h1066>>, <<\h106E, \h1070>>, <<\h1075, \h1081>>, <<\h108E, \h108E>>,
    <<\h10A0, \h10C5>>, <<\h10C7, \h10C7>>, <<\h10CD, \h10CD>>, <<\h10D0, \h10FA>>,
    <<\h10FC, \h1248>>, <<\h124A, \h124D>>, <<\h1250, \h1256>>, <<\h1258, \h1258>>,
    <<\h125A, \h125D>>, <<\h1260, \h1288>>, <<\h128A, \h128D>>, <<\h1290, \h12B0>>,
    <<\h12B2, \h12B5>>, <<\h12B8, \h12BE>>, <<\h12C0, \h12C0>>, <<\h12C2, \h12C5>>,
    <<\h12C8, \h12D6>>, <<\h12D8, \h1310>>, <<\h1312, \h1315>>, <<\h1318, \h135A>>,
    <<\h1380, \h138F>>, <<\h13A0, \h13F5>>, <<\h13F8, \h13FD>>, <<\h1401, \h166C>>,
    <<\h166F, \h167F>>, <<\h1681, \h169A>>, <<\h16A0, \h16EA>>, <<\h16EE, \h16F8>>,
    <<\h1700, \h1711>>, <<\h171F, \h1731>>, <<\h1740, \h1751>>, <<\h1760, \h176C>>,
    <<\h176E, \h1770>>, <<\h1780, \h17B3>>, <<\h17D7, \h17D7>>, <<\h17DC, \h17DC>>,
    <<\h1820, \h1878>>, <<\h1880, \h18A8>>, <<\h18AA, \h18AA>>, <<\h18B0, \h18F5>>,
    <<\h1900, \h191E>>, <<\h1950, \h196D>>, <<\h1970, \h1974>>, <<\h1980, \h19AB>>,
    <<\h19B0, \h19C9>>, <<\h1A00, \h1A16>>, <<\h1A20, \h1A54>>, <<\h1AA7, \h1AA7>>,
    <<\h1B05, \h1B33>>, <<\h1B45, \h1B4C>>, <<\h1B83, \h1BA0>>, <<\h1BAE, \h1BAF>>,
    <<\h1BBA, \h1BE5>>, <<\h1C00, \h1C23>>, <<\h1C4D, \h1C4F>>, <<\h1C5A, \h1C7D>>,
    <<\h1C80, \h1C8A>>, <<\h1C90, \h1CBA>>, <<\h1CBD, \h1CBF>>, <<\h1CE9, \h1CEC>>,
    <<\h1CEE, \h1CF3>>, <<\h1CF5, \h1CF6>>, <<\h1CFA, \h1CFA>>, <<\h1D00, \h1DBF>>,
    <<\h1E00, \h1F15>>, <<\h1F18, \h1F1D>>, <<\h1F20, \h1F45>>, <<\h1F48, \h1F4D>>,
    <<\h1F50, \h1F57>>, <<\h1F59, \h1F59>>, <<\h1F5B, \h1F5B>>, <<\h1F5D, \h1F5D>>,
    <<\h1F5F, \h1F7D>>, <<\h1F80, \h1FB4>>, <<\h1FB6, \h1FBC>>, <<\h1FBE, \h1FBE>>,
    <<\h1FC2, \h1FC4>>, <<\h1FC6, \h1FCC>>, <<\h1FD0, \h1FD3>>, <<\h1FD6, \h1FDB>>,
    <<\h1FE0, \h1FEC>>, <<\h1FF2, \h1FF4>>, <<\h1FF6, \h1FFC>>, <<\h2071, \h2071>>,
    <<\h207F, \h207F>>, <<\h2090, \h209C>>, <<\h2102, \h2102>>, <<\h2107, \h2107>>,
    <<\h210A, \h2113>>, <<\h2115, \h2115>>, <<\h2118, \h211D>>, <<\h2124, \h2124>>,
    <<\h2126, \h2126>>, <<\h2128, \h2128>>, <<\h212A, \h2139>>, <<\h213C, \h213F>>,
    <<\h2145, \h2149>>, <<\h214E, \h214E>>, <<\h2160, \h2188>>, <<\h2C00, \h2CE4>>,
    <<\h2CEB, \h2CEE>>, <<\h2CF2, \h2CF3>>, <<\h2D00, \h2D25>>, <<\h2D27, \h2D27>>,
    <<\h2D2D, \h2D2D>>, <<\h2D30, \h2D67>>, <<\h2D6F, \h2D6F>>, <<\h2D80, \h2D96>>,
    <<\h2DA0, \h2DA6>>, <<\h2DA8, \h2DAE>>, <<\h2DB0, \h2DB6>>, <<\h2DB8, \h2DBE>>,
    <<\h2DC0, \h2DC6>>, <<\h2DC8, \h2DCE>>, <<\h2DD0, \h2DD6>>, <<\h2DD8, \h2DDE>>,
    <<\h3005, \h3007>>, <<\h3021, \h3029>>, <<\h3031, \h3035>>, <<\h3038, \h303C>>,
    <<\h3041, \h3096>>, <<\h309B, \h309F>>, <<\h30A1, \h30FA>>, <<\h30FC, \h30FF>>,
    <<\h3105, \h312F>>, <<\h3131, \h318E>>, <<\h31A0, \h31BF>>, <<\h31F0, \h31FF>>,
    <<\h3400, \h4DBF>>, <<\h4E00, \hA48C>>, <<\hA4D0, \hA4FD>>, <<\hA500, \hA60C>>,
    <<\hA610, \hA61F>>, <<\hA62A, \hA62B>>, <<\hA640, \hA66E>>, <<\hA67F, \hA69D>>,
    <<\hA6A0, \hA6EF>>, <<\hA717, \hA71F>>, <<\hA722, \hA788>>, <<\hA78B, \hA7DC>>,
    <<\hA7F1, \hA801>>, <<\hA803, \hA805>>, <<\hA807, \hA80A>>, <<\hA80C, \hA822>>,
    <<\hA840, \hA873>>, <<\hA882, \hA8B3>>, <<\hA8F2, \hA8F7>>, <<\hA8FB, \hA8FB>>,
    <<\hA8FD, \hA8FE>>, <<\hA90A, \hA925>>, <<\hA930, \hA946>>, <<\hA960, \hA97C>>,
    <<\hA984, \hA9B2>>, <<\hA9CF, \hA9CF>>, <<\hA9E0, \hA9E4>>, <<\hA9E6, \hA9EF>>,
    <<\hA9FA, \hA9FE>>, <<\hAA00, \hAA28>>, <<\hAA40, \hAA42>>, <<\hAA44, \hAA4B>>,
    <<\hAA60, \hAA76>>, <<\hAA7A, \hAA7A>>, <<\hAA7E, \hAAAF>>, <<\hAAB1, \hAAB1>>,
    <<\hAAB5, \hAAB6>>, <<\hAAB9, \hAABD>>, <<\hAAC0, \hAAC0>>, <<\hAAC2, \hAAC2>>,
    <<\hAADB, \hAADD>>, <<\hAAE0, \hAAEA>>, <<\hAAF2, \hAAF4>>, <<\hAB01, \hAB06>>,
    <<\hAB09, \hAB0E>>, <<\hAB11, \hAB16>>, <<\hAB20, \hAB26>>, <<\hAB28, \hAB2E>>,
    <<\hAB30, \hAB5A>>, <<\hAB5C, \hAB69>>, <<\hAB70, \hABE2>>, <<\hAC00, \hD7A3>>,
    <<\hD7B0, \hD7C6>>, <<\hD7CB, \hD7FB>>, <<\hF900, \hFA6D>>, <<\hFA70, \hFAD9>>,
    <<\hFB00, \hFB06>>, <<\hFB13, \hFB17>>, <<\hFB1D, \hFB1D>>, <<\hFB1F, \hFB28>>,
    <<\hFB2A, \hFB36>>, <<\hFB38, \hFB3C>>, <<\hFB3E, \hFB3E>>, <<\hFB40, \hFB41>>,
    <<\hFB43, \hFB44>>, <<\hFB46, \hFBB1>>, <<\hFBD3, \hFD3D>>, <<\hFD50, \hFD8F>>,
    <<\hFD92, \hFDC7>>, <<\hFDF0, \hFDFB>>, <<\hFE70, \hFE74>>, <<\hFE76, \hFEFC>>,
    <<\hFF21, \hFF3A>>, <<\hFF41, \hFF5A>>, <<\hFF66, \hFFBE>>, <<\hFFC2, \hFFC7>>,
    <<\hFFCA, \hFFCF>>, <<\hFFD2, \hFFD7>>, <<\hFFDA, \hFFDC>>, <<\h10000, \h1000B>>,
    <<\h1000D, \h10026>>, <<\h10028, \h1003A>>, <<\h1003C, \h1003D>>, <<\h1003F, \h1004D>>,
    <<\h10050, \h1005D>>, <<\h10080, \h100FA>>, <<\h10140, \h10174>>, <<\h10280, \h1029C>>,
    <<\h102A0, \h102D0>>, <<\h10300, \h1031F>>, <<\h1032D, \h1034A>>, <<\h10350, \h10375>>,
    <<\h10380, \h1039D>>, <<\h103A0, \h103C3>>, <<\h103C8, \h103CF>>, <<\h103D1, \h103D5>>,
    <<\h10400, \h1049D>>, <<\h104B0, \h104D3>>, <<\h104D8, \h104FB>>, <<\h10500, \h10527>>,
    <<\h10530, \h10563>>, <<\h10570, \h1057A>>, <<\h1057C, \h1058A>>, <<\h1058C, \h10592>>,
    <<\h10594, \h10595>>, <<\h10597, \h105A1>>, <<\h105A3, \h105B1>>, <<\h105B3, \h105B9>>,
    <<\h105BB, \h105BC>>, <<\h105C0, \h105F3>>, <<\h10600, \h10736>>, <<\h10740, \h10755>>,
    <<\h10760, \h10767>>, <<\h10780, \h10785>>, <<\h10787, \h107B0>>, <<\h107B2, \h107BA>>,
    <<\h10800, \h10805>>, <<\h10808, \h10808>>, <<\h1080A, \h10835>>, <<\h10837, \h10838>>,
    <<\h1083C, \h1083C>>, <<\h1083F, \h10855>>, <<\h10860, \h10876>>, <<\h10880, \h1089E>>,
    <<\h108E0, \h108F2>>, <<\h108F4, \h108F5>>, <<\h10900, \h10915>>, <<\h10920, \h10939>>,
    <<\h10940, \h10959>>, <<\h10980, \h109B7>>, <<\h109BE, \h109BF>>, <<\h10A00, \h10A00>>,
    <<\h10A10, \h10A13>>, <<\h10A15, \h10A17>>, <<\h10A19, \h10A35>>, <<\h10A60, \h10A7C>>,
    <<\h10A80, \h10A9C>>, <<\h10AC0, \h10AC7>>, <<\h10AC9, \h10AE4>>, <<\h10B00, \h10B35>>,
    <<\h10B40, \h10B55>>, <<\h10B60, \h10B72>>, <<\h10B80, \h10B91>>, <<\h10C00, \h10C48>>,
    <<\h10C80, \h10CB2>>, <<\h10CC0, \h10CF2>>, <<\h10D00, \h10D23>>, <<\h10D4A, \h10D65>>,
    <<\h10D6F, \h10D85>>, <<\h10E80, \h10EA9>>, <<\h10EB0, \h10EB1>>, <<\h10EC2, \h10EC7>>,
    <<\h10F00, \h10F1C>>, <<\h10F27, \h10F27>>, <<\h10F30, \h10F45>>, <<\h10F70, \h10F81>>,
    <<\h10FB0, \h10FC4>>, <<\h10FE0, \h10FF6>>, <<\h11003, \h11037>>, <<\h11071, \h11072>>,
    <<\h11075, \h11075>>, <<\h11083, \h110AF>>, <<\h110D0, \h110E8>>, <<\h11103, \h11126>>,
    <<\h11144, \h11144>>, <<\h11147, \h11147>>, <<\h11150, \h11172>>, <<\h11176, \h11176>>,
    <<\h11183, \h111B2>>, <<\h111C1, \h111C4>>, <<\h111DA, \h111DA>>, <<\h111DC, \h111DC>>,
    <<\h11200, \h11211>>, <<\h11213, \h1122B>>, <<\h1123F, \h11240>>, <<\h11280, \h11286>>,
    <<\h11288, \h11288>>, <<\h1128A, \h1128D>>, <<\h1128F, \h1129D>>, <<\h1129F, \h112A8>>,
    <<\h112B0, \h112DE>>, <<\h11305, \h1130C>>, <<\h1130F, \h11310>>, <<\h11313, \h11328>>,
    <<\h1132A, \h11330>>, <<\h11332, \h11333>>, <<\h11335, \h11339>>, <<\h1133D, \h1133D>>,
    <<\h11350, \h11350>>, <<\h1135D, \h11361>>, <<\h11380, \h11389>>, <<\h1138B, \h1138B>>,
    <<\h1138E, \h1138E>>, <<\h11390, \h113B5>>, <<\h113B7, \h113B7>>, <<\h113D1, \h113D1>>,
    <<\h113D3, \h113D3>>, <<\h11400, \h11434>>, <<\h11447, \h1144A>>, <<\h1145F, \h11461>>,
    <<\h11480, \h114AF>>, <<\h114C4, \h114C5>>, <<\h114C7, \h114C7>>, <<\h11580, \h115AE>>,
    <<\h115D8, \h115DB>>, <<\h11600, \h1162F>>, <<\h11644, \h11644>>, <<\h11680, \h116AA>>,
    <<\h116B8, \h116B8>>, <<\h11700, \h1171A>>, <<\h11740, \h11746>>, <<\h11800, \h1182B>>,
    <<\h118A0, \h118DF>>, <<\h118FF, \h11906>>, <<\h11909, \h11909>>, <<\h1190C, \h11913>>,
    <<\h11915, \h11916>>, <<\h11918, \h1192F>>, <<\h1193F, \h1193F>>, <<\h11941, \h11941>>,
    <<\h119A0, \h119A7>>, <<\h119AA, \h119D0>>, <<\h119E1, \h119E1>>, <<\h119E3, \h119E3>>,
    <<\h11A00, \h11A00>>, <<\h11A0B, \h11A32>>, <<\h11A3A, \h11A3A>>, <<\h11A50, \h11A50>>,
    <<\h11A5C, \h11A89>>, <<\h11A9D, \h11A9D>>, <<\h11AB0, \h11AF8>>, <<\h11BC0, \h11BE0>>,
    <<\h11C00, \h11C08>>, <<\h11C0A, \h11C2E>>, <<\h11C40, \h11C40>>, <<\h11C72, \h11C8F>>,
    <<\h11D00, \h11D06>>, <<\h11D08, \h11D09>>, <<\h11D0B, \h11D30>>, <<\h11D46, \h11D46>>,
    <<\h11D60, \h11D65>>, <<\h11D67, \h11D68>>, <<\h11D6A, \h11D89>>, <<\h11D98, \h11D98>>,
    <<\h11DB0, \h11DDB>>, <<\h11EE0, \h11EF2>>, <<\h11F02, \h11F02>>, <<\h11F04, \h11F10>>,
    <<\h11F12, \h11F33>>, <<\h11FB0, \h11FB0>>, <<\h12000, \h12399>>, <<\h12400, \h1246E>>,
    <<\h12480, \h12543>>, <<\h12F90, \h12FF0>>, <<\h13000, \h1342F>>, <<\h13441, \h13446>>,
    <<\h13460, \h143FA>>, <<\h14400, \h14646>>, <<\h16100, \h1611D>>, <<\h16800, \h16A38>>,
    <<\h16A40, \h16A5E>>, <<\h16A70, \h16ABE>>, <<\h16AD0, \h16AED>>, <<\h16B00, \h16B2F>>,
    <<\h16B40, \h16B43>>, <<\h16B63, \h16B77>>, <<\h16B7D, \h16B8F>>, <<\h16D40, \h16D6C>>,
    <<\h16E40, \h16E7F>>, <<\h16EA0, \h16EB8>>, <<\h16EBB, \h16ED3>>, <<\h16F00, \h16F4A>>,
    <<\h16F50, \h16F50>>, <<\h16F93, \h16F9F>>, <<\h16FE0, \h16FE1>>, <<\h16FE3, \h16FE3>>,
    <<\h16FF2, \h16FF6>>, <<\h17000, \h18CD5>>, <<\h18CFF, \h18D1E>>, <<\h18D80, \h18DF2>>,
    <<\h1AFF0, \h1AFF3>>, <<\h1AFF5, \h1AFFB>>, <<\h1AFFD, \h1AFFE>>, <<\h1B000, \h1B122>>,
    <<\h1B132, \h1B132>>, <<\h1B150, \h1B152>>, <<\h1B155, \h1B155>>, <<\h1B164, \h1B167>>,
    <<\h1B170, \h1B2FB>>, <<\h1BC00, \h1BC6A>>, <<\h1BC70, \h1BC7C>>, <<\h1BC80, \h1BC88>>,
    <<\h1BC90, \h1BC99>>, <<\h1D400, \h1D454>>, <<\h1D456, \h1D49C>>, <<\h1D49E, \h1D49F>>,
    <<\h1D4A2, \h1D4A2>>, <<\h1D4A5, \h1D4A6>>, <<\h1D4A9, \h1D4AC>>, <<\h1D4AE, \h1D4B9>>,
    <<\h1D4BB, \h1D4BB>>, <<\h1D4BD, \h1D4C3>>, <<\h1D4C5, \h1D505>>, <<\h1D507, \h1D50A>>,
    <<\h1D50D, \h1D514>>, <<\h1D516, \h1D51C>>, <<\h1D51E, \h1D539>>, <<\h1D53B, \h1D53E>>,
    <<\h1D540, \h1D544>>, <<\h1D546, \h1D546>>, <<\h1D54A, \h1D550>>, <<\h1D552, \h1D6A5>>,
    <<\h1D6A8, \h1D6C0>>, <<\h1D6C2, \h1D6DA>>, <<\h1D6DC, \h1D6FA>>, <<\h1D6FC, \h1D714>>,
    <<\h1D716, \h1D734>>, <<\h1D736, \h1D74E>>, <<\h1D750, \h1D76E>>, <<\h1D770, \h1D788>>,
    <<\h1D78A, \h1D7A8>>, <<\h1D7AA, \h1D7C2>>, <<\h1D7C4, \h1D7CB>>, <<\h1DF00, \h1DF1E>>,
    <<\h1DF25, \h1DF2A>>, <<\h1E030, \h1E06D>>, <<\h1E100, \h1E12C>>, <<\h1E137, \h1E13D>>,
    <<\h1E14E, \h1E14E>>, <<\h1E290, \h1E2AD>>, <<\h1E2C0, \h1E2EB>>, <<\h1E4D0, \h1E4EB>>,
    <<\h1E5D0, \h1E5ED>>, <<\h1E5F0, \h1E5F0>>, <<\h1E6C0, \h1E6DE>>, <<\h1E6E0, \h1E6E2>>,
    <<\h1E6E4, \h1E6E5>>, <<\h1E6E7, \h1E6ED>>, <<\h1E6F0, \h1E6F4>>, <<\h1E6FE, \h1E6FF>>,
    <<\h1E7E0, \h1E7E6>>, <<\h1E7E8, \h1E7EB>>, <<\h1E7ED, \h1E7EE>>, <<\h1E7F0, \h1E7FE>>,
    <<\h1E800, \h1E8C4>>, <<\h1E900, \h1E943>>, <<\h1E94B, \h1E94B>>, <<\h1EE00, \h1EE03>>,
    <<\h1EE05, \h1EE1F>>, <<\h1EE21, \h1EE22>>, <<\h1EE24, \h1EE24>>, <<\h1EE27, \h1EE27>>,
    <<\h1EE29, \h1EE32>>, <<\h1EE34, \h1EE37>>, <<\h1EE39, \h1EE39>>, <<\h1EE3B, \h1EE3B>>,
    <<\h1EE42, \h1EE42>>, <<\h1EE47, \h1EE47>>, <<\h1EE49, \h1EE49>>, <<\h1EE4B, \h1EE4B>>,
    <<\h1EE4D, \h1EE4F>>, <<\h1EE51, \h1EE52>>, <<\h1EE54, \h1EE54>>, <<\h1EE57, \h1EE57>>,
    <<\h1EE59, \h1EE59>>, <<\h1EE5B, \h1EE5B>>, <<\h1EE5D, \h1EE5D>>, <<\h1EE5F, \h1EE5F>>,
    <<\h1EE61, \h1EE62>>, <<\h1EE64, \h1EE64>>, <<\h1EE67, \h1EE6A>>, <<\h1EE6C, \h1EE72>>,
    <<\h1EE74, \h1EE77>>, <<\h1EE79, \h1EE7C>>, <<\h1EE7E, \h1EE7E>>, <<\h1EE80, \h1EE89>>,
    <<\h1EE8B, \h1EE9B>>, <<\h1EEA1, \h1EEA3>>, <<\h1EEA5, \h1EEA9>>, <<\h1EEAB, \h1EEBB>>,
    <<\h20000, \h2A6DF>>, <<\h2A700, \h2B81D>>, <<\h2B820, \h2CEAD>>, <<\h2CEB0, \h2EBE0>>,
    <<\h2EBF0, \h2EE5D>>, <<\h2F800, \h2FA1D>>, <<\h30000, \h3134A>>, <<\h31350, \h33479>> >>

\* the code points of the property ID_Continue that are not of ID_Start
ID_CONTINUE_ONLY == <<
    <<\h0030, \h0039>>, <<\h005F, \h005F>>, <<\h00B7, \h00B7>>, <<\h0300, \h036F>>,
    <<\h0387, \h0387>>, <<\h0483, \h0487>>, <<\h0591, \h05BD>>, <<\h05BF, \h05BF>>,
    <<\h05C1, \h05C2>>, <<\h05C4, \h05C5>>, <<\h05C7, \h05C7>>, <<\h0610, \h061A>>,
    <<\h064B, \h0669>>, <<\h0670, \h0670>>, <<\h06D6, \h06DC>>, <<\h06DF, \h06E4>>,
    <<\h06E7, \h06E8>>, <<\h06EA, \h06ED>>, <<\h06F0, \h06F9>>, <<\h0711, \h0711>>,
    <<\h0730, \h074A>>, <<\h07A6, \h07B0>>, <<\h07C0, \h07C9>>, <<\h07EB, \h07F3>>,
    <<\h07FD, \h07FD>>, <<\h0816, \h0819>>, <<\h081B, \h0823>>, <<\h0825, \h0827>>,
    <<\h0829, \h082D>>, <<\h0859, \h085B>>, <<\h0897, \h089F>>, <<\h08CA, \h08E1>>,
    <<\h08E3, \h0903>>, <<\h093A, \h093C>>, <<\h093E, \h094F>>, <<\h0951, \h0957>>,
    <<\h0962, \h0963>>, <<\h0966, \h096F>>, <<\h0981, \h0983>>, <<\h09BC, \h09BC>>,
    <<\h09BE, \h09C4>>, <<\h09C7, \h09C8>>, <<\h09CB, \h09CD>>, <<\h09D7, \h09D7>>,
    <<\h09E2, \h09E3>>, <<\h09E6, \h09EF>>, <<\h09FE, \h09FE>>, <<\h0A01, \h0A03>>,
    <<\h0A3C, \h0A3C>>, <<\h0A3E, \h0A42>>, <<\h0A47, \h0A48>>, <<\h0A4B, \h0A4D>>,
    <<\h0A51, \h0A51>>, <<\h0A66, \h0A71>>, <<\h0A75, \h0A75>>, <<\h0A81, \h0A83>>,
    <<\h0ABC, \h0ABC>>, <<\h0ABE, \h0AC5>>, <<\h0AC7, \h0AC9>>, <<\h0ACB, \h0ACD>>,
    <<\h0AE2, \h0AE3>>, <<\h0AE6, \h0AEF>>, <<\h0AFA, \h0AFF>>, <<\h0B01, \h0B03>>,
    <<\h0B3C, \h0B3C>>, <<\h0B3E, \h0B44>>, <<\h0B47, \h0B48>>, <<\h0B4B, \h0B4D>>,
    <<\h0B55, \h0B57>>, <<\h0B62, \h0B63>>, <<\h0B66, \h0B6F>>, <<\h0B82, \h0B82>>,
    <<\h0BBE, \h0BC2>>, <<\h0BC6, \h0BC8>>, <<\h0BCA, \h0BCD>>, <<\h0BD7, \h0BD7>>,
    <<\h0BE6, \h0BEF>>, <<\h0C00, \h0C04>>, <<\h0C3C, \h0C3C>>, <<\h0C3E, \h0C44>>,
    <<\h0C46, \h0C48>>, <<\h0C4A, \h0C4D>>, <<\h0C55, \h0C56>>, <<\h0C62, \h0C63>>,
    <<\h0C66, \h0C6F>>, <<\h0C81, \h0C83>>, <<\h0CBC, \h0CBC>>, <<\h0CBE, \h0CC4>>,
    <<\h0CC6, \h0CC8>>, <<\h0CCA, \h0CCD>>, <<\h0CD5, \h0CD6>>, <<\h0CE2, \h0CE3>>,
    <<\h0CE6, \h0CEF>>, <<\h0CF3, \h0CF3>>, <<\h0D00, \h0D03>>, <<\h0D3B, \h0D3C>>,
    <<\h0D3E, \h0D44>>, <<\h0D46, \h0D48>>, <<\h0D4A, \h0D4D>>, <<\h0D57, \h0D57>>,
    <<\h0D62, \h0D63>>, <<\h0D66, \h0D6F>>, <<\h0D81, \h0D83>>, <<\h0DCA, \h0DCA>>,
    <<\h0DCF, \h0DD4>>, <<\h0DD6, \h0DD6>>, <<\h0DD8, \h0DDF>>, <<\h0DE6, \h0DEF>>,
    <<\h0DF2, \h0DF3>>, <<\h0E31, \h0E31>>, <<\h0E34, \h0E3A>>, <<\h0E47, \h0E4E>>,
    <<\h0E50, \h0E59>>, <<\h0EB1, \h0EB1>>, <<\h0EB4, \h0EBC>>, <<\h0EC8, \h0ECE>>,
    <<\h0ED0, \h0ED9>>, <<\h0F18, \h0F19>>, <<\h0F20, \h0F29>>, <<\h0F35, \h0F35>>,
    <<\h0F37, \h0F37>>, <<\h0F39, \h0F39>>, <<\h0F3E, \h0F3F>>, <<\h0F71, \h0F84>>,
    <<\h0F86, \h0F87>>, <<\h0F8D, \h0F97>>, <<\h0F99, \h0FBC>>, <<\h0FC6, \h0FC6>>,
    <<\h102B, \h103E>>, <<\h1040, \h1049>>, <<\h1056, \h1059>>, <<\h105E, \h1060>>,
    <<\h1062, \h1064>>, <<\h1067, \h106D>>, <<\h1071, \h1074>>, <<\h1082, \h108D>>,
    <<\h108F, \h109D>>, <<\h135D, \h135F>>, <<\h1369, \h1371>>, <<\h1712, \h1715>>,
    <<\h1732, \h1734>>, <<\h1752, \h1753>>, <<\h1772, \h1773>>, <<\h17B4, \h17D3>>,
    <<\h17DD, \h17DD>>, <<\h17E0, \h17E9>>, <<\h180B, \h180D>>, <<\h180F, \h1819>>,
    <<\h18A9, \h18A9>>, <<\h1920, \h192B>>, <<\h1930, \h193B>>, <<\h1946, \h194F>>,
    <<\h19D0, \h19DA>>, <<\h1A17, \h1A1B>>, <<\h1A55, \h1A5E>>, <<\h1A60, \h1A7C>>,
    <<\h1A7F, \h1A89>>, <<\h1A90, \h1A99>>, <<\h1AB0, \h1ABD>>, <<\h1ABF, \h1ADD>>,
    <<\h1AE0, \h1AEB>>, <<\h1B00, \h1B04>>, <<\h1B34, \h1B44>>, <<\h1B50, \h1B59>>,
    <<\h1B6B, \h1B73>>, <<\h1B80, \h1B82>>, <<\h1BA1, \h1BAD>>, <<\h1BB0, \h1BB9>>,
    <<\h1BE6, \h1BF3>>, <<\h1C24, \h1C37>>, <<\h1C40, \h1C49>>, <<\h1C50, \h1C59>>,
    <<\h1CD0, \h1CD2>>, <<\h1CD4, \h1CE8>>, <<\h1CED, \h1CED>>, <<\h1CF4, \h1CF4>>,
    <<\h1CF7, \h1CF9>>, <<\h1DC0, \h1DFF>>, <<\h203F, \h2040>>, <<\h2054, \h2054>>,
    <<\h20D0, \h20DC>>, <<\h20E1, \h20E1>>, <<\h20E5, \h20F0>>, <<\h2CEF, \h2CF1>>,
    <<\h2D7F, \h2D7F>>, <<\h2DE0, \h2DFF>>, <<\h302A, \h302F>>, <<\h3099, \h309A>>, <<\h30FB, \h30FB>>,
    <<\hA620, \hA629>>, <<\hA66F, \hA66F>>, <<\hA674, \hA67D>>, <<\hA69E, \hA69F>>,
    <<\hA6F0, \hA6F1>>, <<\hA802, \hA802>>, <<\hA806, \hA806>>, <<\hA80B, \hA80B>>,
    <<\hA823, \hA827>>, <<\hA82C, \hA82C>>, <<\hA880, \hA881>>, <<\hA8B4, \hA8C5>>,
    <<\hA8D0, \hA8D9>>, <<\hA8E0, \hA8F1>>, <<\hA8FF, \hA909>>, <<\hA926, \hA92D>>,
    <<\hA947, \hA953>>, <<\hA980, \hA983>>, <<\hA9B3, \hA9C0>>, <<\hA9D0, \hA9D9>>,
    <<\hA9E5, \hA9E5>>, <<\hA9F0, \hA9F9>>, <<\hAA29, \hAA36>>, <<\hAA43, \hAA43>>,
    <<\hAA4C, \hAA4D>>, <<\hAA50, \hAA59>>, <<\hAA7B, \hAA7D>>, <<\hAAB0, \hAAB0>>,
    <<\hAAB2, \hAAB4>>, <<\hAAB7, \hAAB8>>, <<\hAABE, \hAABF>>, <<\hAAC1, \hAAC1>>,
    <<\hAAEB, \hAAEF>>, <<\hAAF5, \hAAF6>>, <<\hABE3, \hABEA>>, <<\hABEC, \hABED>>,
    <<\hABF0, \hABF9>>, <<\hFB1E, \hFB1E>>, <<\hFE00, \hFE0F>>, <<\hFE20, \hFE2F>>,
    <<\hFE33, \hFE34>>, <<\hFE4D, \hFE4F>>, <<\hFF10, \hFF19>>, <<\hFF3F, \hFF3F>>, <<\hFF65, \hFF65>>,
    <<\h101FD, \h101FD>>, <<\h102E0, \h102E0>>, <<\h10376, \h1037A>>, <<\h104A0, \h104A9>>,
    <<\h10A01, \h10A03>>, <<\h10A05, \h10A06>>, <<\h10A0C, \h10A0F>>, <<\h10A38, \h10A3A>>,
    <<\h10A3F, \h10A3F>>, <<\h10AE5, \h10AE6>>, <<\h10D24, \h10D27>>, <<\h10D30, \h10D39>>,
    <<\h10D40, \h10D49>>, <<\h10D69, \h10D6D>>, <<\h10EAB, \h10EAC>>, <<\h10EFA, \h10EFF>>,
    <<\h10F46, \h10F50>>, <<\h10F82, \h10F85>>, <<\h11000, \h11002>>, <<\h11038, \h11046>>,
    <<\h11066, \h11070>>, <<\h11073, \h11074>>, <<\h1107F, \h11082>>, <<\h110B0, \h110BA>>,
    <<\h110C2, \h110C2>>, <<\h110F0, \h110F9>>, <<\h11100, \h11102>>, <<\h11127, \h11134>>,
    <<\h11136, \h1113F>>, <<\h11145, \h11146>>, <<\h11173, \h11173>>, <<\h11180, \h11182>>,
    <<\h111B3, \h111C0>>, <<\h111C9, \h111CC>>, <<\h111CE, \h111D9>>, <<\h1122C, \h11237>>,
    <<\h1123E, \h1123E>>, <<\h11241, \h11241>>, <<\h112DF, \h112EA>>, <<\h112F0, \h112F9>>,
    <<\h11300, \h11303>>, <<\h1133B, \h1133C>>, <<\h1133E, \h11344>>, <<\h11347, \h11348>>,
    <<\h1134B, \h1134D>>, <<\h11357, \h11357>>, <<\h11362, \h11363>>, <<\h11366, \h1136C>>,
    <<\h11370, \h11374>>, <<\h113B8, \h113C0>>, <<\h113C2, \h113C2>>, <<\h113C5, \h113C5>>,
    <<\h113C7, \h113CA>>, <<\h113CC, \h113D0>>, <<\h113D2, \h113D2>>, <<\h113E1, \h113E2>>,
    <<\h11435, \h11446>>, <<\h11450, \h11459>>, <<\h1145E, \h1145E>>, <<\h114B0, \h114C3>>,
    <<\h114D0, \h114D9>>, <<\h115AF, \h115B5>>, <<\h115B8, \h115C0>>, <<\h115DC, \h115DD>>,
    <<\h11630, \h11640>>, <<\h11650, \h11659>>, <<\h116AB, \h116B7>>, <<\h116C0, \h116C9>>,
    <<\h116D0, \h116E3>>, <<\h1171D, \h1172B>>, <<\h11730, \h11739>>, <<\h1182C, \h1183A>>,
    <<\h118E0, \h118E9>>, <<\h11930, \h11935>>, <<\h11937, \h11938>>, <<\h1193B, \h1193E>>,
    <<\h11940, \h11940>>, <<\h11942, \h11943>>, <<\h11950, \h11959>>, <<\h119D1, \h119D7>>,
    <<\h119DA, \h119E0>>, <<\h119E4, \h119E4>>, <<\h11A01, \h11A0A>>, <<\h11A33, \h11A39>>,
    <<\h11A3B, \h11A3E>>, <<\h11A47, \h11A47>>, <<\h11A51, \h11A5B>>, <<\h11A8A, \h11A99>>,
    <<\h11B60, \h11B67>>, <<\h11BF0, \h11BF9>>, <<\h11C2F, \h11C36>>, <<\h11C38, \h11C3F>>,
    <<\h11C50, \h11C59>>, <<\h11C92, \h11CA7>>, <<\h11CA9, \h11CB6>>, <<\h11D31, \h11D36>>,
    <<\h11D3A, \h11D3A>>, <<\h11D3C, \h11D3D>>, <<\h11D3F, \h11D45>>, <<\h11D47, \h11D47>>,
    <<\h11D50, \h11D59>>, <<\h11D8A, \h11D8E>>, <<\h11D90, \h11D91>>, <<\h11D93, \h11D97>>,
    <<\h11DA0, \h11DA9>>, <<\h11DE0, \h11DE9>>, <<\h11EF3, \h11EF6>>, <<\h11F00, \h11F01>>,
    <<\h11F03, \h11F03>>, <<\h11F34, \h11F3A>>, <<\h11F3E, \h11F42>>, <<\h11F50, \h11F5A>>,
    <<\h13440, \h13440>>, <<\h13447, \h13455>>, <<\h1611E, \h16139>>, <<\h16A60, \h16A69>>,
    <<\h16AC0, \h16AC9>>, <<\h16AF0, \h16AF4>>, <<\h16B30, \h16B36>>, <<\h16B50, \h16B59>>,
    <<\h16D70, \h16D79>>, <<\h16F4F, \h16F4F>>, <<\h16F51, \h16F87>>, <<\h16F8F, \h16F92>>,
    <<\h16FE4, \h16FE4>>, <<\h16FF0, \h16FF1>>, <<\h1BC9D, \h1BC9E>>, <<\h1CCF0, \h1CCF9>>,
    <<\h1CF00, \h1CF2D>>, <<\h1CF30, \h1CF46>>, <<\h1D165, \h1D169>>, <<\h1D16D, \h1D172>>,
    <<\h1D17B, \h1D182>>, <<\h1D185, \h1D18B>>, <<\h1D1AA, \h1D1AD>>, <<\h1D242, \h1D244>>,
    <<\h1D7CE, \h1D7FF>>, <<\h1DA00, \h1DA36>>, <<\h1DA3B, \h1DA6C>>, <<\h1DA75, \h1DA75>>,
    <<\h1DA84, \h1DA84>>, <<\h1DA9B, \h1DA9F>>, <<\h1DAA1, \h1DAAF>>, <<\h1E000, \h1E006>>,
    <<\h1E008, \h1E018>>, <<\h1E01B, \h1E021>>, <<\h1E023, \h1E024>>, <<\h1E026, \h1E02A>>,
    <<\h1E08F, \h1E08F>>, <<\h1E130, \h1E136>>, <<\h1E140, \h1E149>>, <<\h1E2AE, \h1E2AE>>,
    <<\h1E2EC, \h1E2F9>>, <<\h1E4EC, \h1E4F9>>, <<\h1E5EE, \h1E5EF>>, <<\h1E5F1, \h1E5FA>>,
    <<\h1E6E3, \h1E6E3>>, <<\h1E6E6, \h1E6E6>>, <<\h1E6EE, \h1E6EF>>, <<\h1E6F5, \h1E6F5>>,
    <<\h1E8D0, \h1E8D6>>, <<\h1E944, \h1E94A>>, <<\h1E950, \h1E959>>, <<\h1FBF0, \h1FBF9>>,
    <<\hE0100, \hE01EF>> >>

\* a run of the table R holds the code point
InRuns(cp, R) == \E i \in 1..Len(R) : cp >= R[i][1] /\ cp <= R[i][2]

Cased(cp) == InRuns(cp, CASED)
CaseIgnorable(cp) == InRuns(cp, CASE_IGNORABLE)

\* the lower case form the table has for a code point
LowerCaseIn(cp) ==
    LET runs == {i \in 1..Len(LOWERCASE_MAPPINGS) :
                    /\ cp >= LOWERCASE_MAPPINGS[i][1]
                    /\ cp <= LOWERCASE_MAPPINGS[i][2]
                    /\ (cp - LOWERCASE_MAPPINGS[i][1]) % LOWERCASE_MAPPINGS[i][3] = 0}
    IN  IF runs = {} THEN cp
        ELSE LET r == LOWERCASE_MAPPINGS[CHOOSE i \in runs : TRUE]
             IN  r[4] + (cp - r[1])

\* the table read once for the code points up to U+00FF
LowerCaseLatin1 == [cp \in 0..(Len(CHARS) - 1) |-> LowerCaseIn(cp)]

\* the lower case form of a code point: of one code point for every code
\* point but U+0130
LowerCaseOf(cp) == IF cp < Len(CHARS) THEN LowerCaseLatin1[cp] ELSE LowerCaseIn(cp)

\* a capital sigma at i is final: going back over the case-ignorable code
\* points the first other one is cased, and going forward it is not
FinalSigma(s, i) ==
    LET marks == {j \in 1..Len(s) :
                     StartsCodePoint(s, j) /\ ~CaseIgnorable(CodePointAt(s, j))}
        before == {j \in marks : j < i}
        after == {j \in marks : j > i}
    IN  /\ before # {}
        /\ Cased(CodePointAt(s, SetMax(before)))
        /\ ~(after # {} /\ Cased(CodePointAt(s, SetMin(after))))

\* String.prototype.toLowerCase, code point by code point
LowerCaseAt(s, i, cp) ==
    IF cp = \h0130 THEN <<"i", "U+0307">>
    ELSE IF cp = \h03A3
    THEN IF FinalSigma(s, i) THEN <<"U+03C2">> ELSE <<"U+03C3">>
    ELSE CodeUnits(LowerCaseOf(cp))

ToLowerCase(s) ==
    LET lower(i) == IF s[i] \in Latin1 THEN <<CharOf(LowerCaseLatin1[CodeTable[s[i]]])>>
                    ELSE IF ~StartsCodePoint(s, i) THEN <<>>
                    ELSE LowerCaseAt(s, i, CodePointAt(s, i))
        RECURSIVE from(_)
        from(i) == IF i > Len(s) THEN <<>> ELSE lower(i) \o from(i + 1)
    IN  from(1)

\* String.prototype.includes
Includes(s, k) == \E p \in 1..(Len(s) - Len(k) + 1) : IsLit(s, p, k)

\* SHARED_WRAPPER_KEYWORDS.some(keyword => imp.toLowerCase().includes(keyword.toLowerCase()))
IsSharedWrapper(imp) ==
    \E i \in 1..Len(SHARED_WRAPPER_KEYWORDS) :
        Includes(ToLowerCase(imp), ToLowerCase(SHARED_WRAPPER_KEYWORDS[i]))

\* [...staticImports, ...dynamicImports].forEach(imp => ... push(imp))
SharedWrapperImports(staticImports, dynamicImports) ==
    SelectSeq(staticImports \o dynamicImports, IsSharedWrapper)

\* JSON.parse(fs.readFileSync(packageJsonPath)): raises, or yields the field
ReadWorkspaces(man) ==
    IF ~man.readable \/ ~man.parses
    THEN [threw |-> TRUE, workspaces |-> "undefined"]
    ELSE [threw |-> FALSE, workspaces |-> man.workspaces]

\* the monorepo check without its try / catch
IsMonorepoUncaught(man) ==
    IF man.exists
    THEN LET r == ReadWorkspaces(man)
         IN  IF r.threw THEN [failed |-> TRUE, value |-> FALSE]
             ELSE [failed |-> FALSE, value |-> r.workspaces # "undefined"]
    ELSE [failed |-> FALSE, value |-> FALSE]

\* the isMonorepo closure: existsSync, then try { parse; workspaces !== undefined }
\* catch { log }, then false
IsMonorepo(man) ==
    IF man.exists
    THEN LET r == ReadWorkspaces(man)
         IN  IF r.threw THEN [failed |-> FALSE, value |-> FALSE]
             ELSE [failed |-> FALSE, value |-> r.workspaces # "undefined"]
    ELSE [failed |-> FALSE, value |-> FALSE]

TotalImportsStaticOnly(staticImports, dynamicImports) == Len(staticImports)

TotalImports(staticImports, dynamicImports) ==
    Len(staticImports) + Len(dynamicImports)

PreviewFile == "preview.ts"

\* analyzePreviewFile: the returned record
analyzePreviewFile(t, man) ==
    LET staticImports == Caps(StaticExecAll(t, 1))
        dynamicImports == Caps(DynamicExecAll(t, 1))
        sharedWrapperImports == SharedWrapperImports(staticImports, dynamicImports)
    IN  [totalImports |-> TotalImports(staticImports, dynamicImports),
         hasSharedWrappers |-> Len(sharedWrapperImports) > 0,
         sharedWrapperImports |-> sharedWrapperImports,
         staticImports |-> staticImports,
         dynamicImports |-> dynamicImports,
         isMonorepo |-> IsMonorepo(man).value,
         file |-> PreviewFile]

\* the four warnings previewMode prints for one record
PreviewWarnings(result) ==
    [monorepoWarning |-> result.isMonorepo,
     importWarning |-> result.totalImports > IMPORT_THRESHOLD,
     wrapperWarning |-> result.hasSharedWrappers,
     importTypeWarning |-> Len(result.dynamicImports) > 0]

PathTheme == <<".", "/", "T", "h", "e", "m", "e">>
PathUtils == <<".", "/", "u", "t", "i", "l", "s">>
PathProvider == <<".", "/", "P", "r", "o", "v", "i", "d", "e", "r">>
PathWrap == <<".", "/", "w", "r", "a", "p">>
PathDecorators == <<"@", "x", "/", "D", "E", "C", "O", "R", "A", "T", "O", "R", "S">>
PathS == <<".", "/", "s">>

PreviewPieces ==
    { StaticStmt(BindDefault, "'", PathTheme, SEMI),
      StaticStmt(BindNamed, "'", PathUtils, SEMI),
      StaticStmt(BindNamespace, "\"", PathDecorators, SEMI),
      DynamicStmt(REQUIRE, "'", PathProvider, SEMI),
      DynamicStmt(AWAIT \o SP \o IMPORT, "'", PathWrap, SEMI) }

FillPieces ==
    { StaticStmt(BindDefault, "'", PathS, SEMI),
      StaticStmt(BindDefault, "'", PathS, <<>>) }

Manifests ==
    { NoManifest,
      [exists |-> TRUE, readable |-> FALSE, parses |-> FALSE, workspaces |-> "undefined"],
      [exists |-> TRUE, readable |-> TRUE, parses |-> FALSE, workspaces |-> "undefined"],
      [exists |-> TRUE, readable |-> TRUE, parses |-> TRUE, workspaces |-> "undefined"],
      [exists |-> TRUE, readable |-> TRUE, parses |-> TRUE, workspaces |-> <<>>],
      [exists |-> TRUE, readable |-> TRUE, parses |-> TRUE,
       workspaces |-> <<"packages/*">>] }

\* a preview file of a few import statements
InitPreview ==
    /\ stmts \in SeqsUpTo(PreviewPieces, MaxPrefix)
    /\ content = Text(stmts)
    /\ manifest \in Manifests
    /\ pc = "start"
    /\ res = Null
    /\ report = Null
    /\ filePath = <<>>
    /\ files = <<>>
    /\ pending = <<>>
    /\ queries = <<>>
    /\ imports = Null
    /\ componentFile = None
    /\ ModeIdle
    /\ FlowIdle
    /\ ConfigIdle

\* a preview file with up to MaxLead + MaxFill import statements
InitPreviewCount ==
    /\ \E lead \in SeqsUpTo(PreviewPieces, MaxLead), fill \in FillPieces,
          k \in 0..MaxFill :
           stmts = lead \o [i \in 1..k |-> fill]
    /\ content = Text(stmts)
    /\ manifest \in Manifests
    /\ pc = "start"
    /\ res = Null
    /\ report = Null
    /\ filePath = <<>>
    /\ files = <<>>
    /\ pending = <<>>
    /\ queries = <<>>
    /\ imports = Null
    /\ componentFile = None
    /\ ModeIdle
    /\ FlowIdle
    /\ ConfigIdle

\* previewMode, lines 327-334: the analysis of the preview file
AnalyzePreviewStep ==
    /\ pc = "start"
    /\ IF IsMonorepo(manifest).failed
       THEN pc' = "failed" /\ res' = Null
       ELSE pc' = "analyzed" /\ res' = analyzePreviewFile(content, manifest)
    /\ UNCHANGED <<stmts, content, manifest, report, storyVars>>
    /\ UNCHANGED <<modeVars, configVars, flowVars>>

\* previewMode, lines 340-497: the display of the record
DisplayPreviewStep ==
    /\ pc = "analyzed"
    /\ report' = PreviewWarnings(res)
    /\ pc' = "displayed"
    /\ UNCHANGED <<stmts, content, manifest, res, storyVars>>
    /\ UNCHANGED <<modeVars, configVars, flowVars>>

NextPreview == AnalyzePreviewStep \/ DisplayPreviewStep

SpecPreview == InitPreview /\ [][NextPreview]_vars

SpecPreviewCount == InitPreviewCount /\ [][NextPreview]_vars

Analyzed == pc \in {"analyzed", "displayed"}

WrapperPaths == {PathTheme, PathProvider, PathDecorators}
OtherPaths == {PathUtils, PathWrap, PathS}

\* C5: sharedWrapperImports is exactly the subsequence of staticImports
\* followed by dynamicImports whose lower-cased text contains wrapper,
\* decorator, theme or provider; order and multiplicity are kept.
C5_SharedWrappersAreTheMatchingSubsequence ==
    Analyzed =>
        LET input == res.staticImports \o res.dynamicImports
        IN  /\ \A i \in 1..Len(input) : input[i] \in WrapperPaths \cup OtherPaths
            /\ res.sharedWrapperImports
                   = SelectSeq(input, LAMBDA imp : imp \in WrapperPaths)

C5_Witness ==
    /\ pc = "analyzed"
    /\ res.staticImports = <<PathUtils, PathTheme>>
    /\ res.dynamicImports = <<PathProvider>>
    /\ stmts[1].kind = "dynamic"
    /\ res.sharedWrapperImports = <<PathTheme, PathProvider>>

\* C6: totalImports = |staticImports| + |dynamicImports| and
\* hasSharedWrappers = (|sharedWrapperImports| > 0) in every record.
C6_TotalAndHasSharedWrappers ==
    Analyzed =>
        /\ res.totalImports = Len(res.staticImports) + Len(res.dynamicImports)
        /\ res.hasSharedWrappers = (Len(res.sharedWrapperImports) > 0)

C6_Witness ==
    /\ pc = "analyzed"
    /\ Len(res.staticImports) = 2
    /\ Len(res.dynamicImports) = 1
    /\ res.totalImports = 3
    /\ res.hasSharedWrappers

\* C7: the import-count warning is shown exactly when the preview file has
\* more than 10 imports: 10 static imports give no warning, 11 imports give it.
C7_WarningIffMoreThanTenImports ==
    pc = "displayed" =>
        /\ report.importWarning = (Len(stmts) > IMPORT_THRESHOLD)
        /\ (Len(stmts) = IMPORT_THRESHOLD /\ AllOfKind("static"))
               => res.totalImports = IMPORT_THRESHOLD

\* C8: isMonorepo is true exactly when the manifest exists, parses and
\* declares a non-empty workspaces list.
C8_MonorepoIffNonEmptyWorkspaces ==
    Analyzed =>
        res.isMonorepo = ( /\ manifest.exists
                           /\ manifest.readable
                           /\ manifest.parses
                           /\ manifest.workspaces # "undefined"
                           /\ manifest.workspaces # <<>> )

ManifestFails == ~manifest.exists \/ ~manifest.readable \/ ~manifest.parses

PreviewFields == {"totalImports", "hasSharedWrappers", "sharedWrapperImports",
                  "staticImports", "dynamicImports", "isMonorepo", "file"}

\* C9: with the manifest missing, unreadable or unparseable the analyzer
\* does not fail: isMonorepo is false and the complete record, computed from
\* the preview text, is returned.
C9_ManifestFailureIsNotFatal ==
    ManifestFails =>
        /\ pc # "failed"
        /\ Analyzed =>
               /\ DOMAIN res = PreviewFields
               /\ res.isMonorepo = FALSE
               /\ res.staticImports = SpecsOf(stmts, "static")
               /\ res.dynamicImports = SpecsOf(stmts, "dynamic")
               /\ res.totalImports = Len(stmts)
               /\ res.sharedWrapperImports
                      = SelectSeq(res.staticImports \o res.dynamicImports,
                                  LAMBDA imp : imp \in WrapperPaths)

C9_Witness ==
    /\ pc = "analyzed"
    /\ manifest.exists
    /\ manifest.readable
    /\ ~manifest.parses
    /\ res.totalImports = 3
    /\ res.isMonorepo = FALSE

----------------------------------------------------------------------------
(* analyze mode: analyzeStoryFile, the association of a story with its     *)
(* component file                                                          *)

COMPONENT_FIELD == <<"c", "o", "m", "p", "o", "n", "e", "n", "t", ":">>
FieldStop == {",", "}", "\n"}
Digits == {"0", "1", "2", "3", "4", "5", "6", "7", "8", "9"}
WordChars == {UpperCase[i] : i \in 1..Len(UpperCase)}
                 \cup {LowerCase[i] : i \in 1..Len(LowerCase)}
                 \cup Digits \cup {"_"}

\* /component:\s*([^,}\n]+)/ at p: \s* is greedy and gives whitespace back
\* to the capture when nothing else is left for it
ComponentFieldAt(t, p) ==
    IF ~IsLit(t, p, COMPONENT_FIELD) THEN NoMatch
    ELSE LET a == p + Len(COMPONENT_FIELD)
             w == RunEnd(t, a, WS)
             S == {c \in a..w : c <= Len(t) /\ t[c] \notin FieldStop}
         IN  IF S = {} THEN NoMatch
             ELSE LET c == SetMax(S)
                      e == RunEndNot(t, c, FieldStop)
                  IN  [ok |-> TRUE, cap |-> SubSeq(t, c, e - 1), at |-> p,
                       capAt |-> c, end |-> e]

\* the story's file name taken for the component when the text has no field
ComponentMatchOrStem(t) ==
    LET P == {p \in 1..Len(t) : ComponentFieldAt(t, p).ok}
    IN  IF P = {}
        THEN [ok |-> TRUE, cap |-> <<"B", "u", "t", "t", "o", "n">>, at |-> 0,
              capAt |-> 0, end |-> 0]
        ELSE ComponentFieldAt(t, SetMin(P))

\* content.match(/component:.../): the first match
ComponentMatch(t) ==
    LET P == {p \in 1..Len(t) : ComponentFieldAt(t, p).ok}
    IN  IF P = {} THEN NoMatch ELSE ComponentFieldAt(t, SetMin(P))

\* String.prototype.trim
Trim(s) ==
    LET K == {i \in 1..Len(s) : s[i] \notin WS}
    IN  IF K = {} THEN <<>> ELSE SubSeq(s, SetMin(K), SetMax(K))

\* the text of undefined in a template literal
UNDEFINED_TEXT == <<"u", "n", "d", "e", "f", "i", "n", "e", "d">>

IsWordAt(t, j) == j >= 1 /\ j <= Len(t) /\ t[j] \in WordChars

\* \b between t[i-1] and t[i]
WordBoundary(t, i) == IsWordAt(t, i - 1) # IsWordAt(t, i)

----------------------------------------------------------------------------
(* new RegExp(source) and String.prototype.match for an expression built   *)
(* at run time: the pattern language without flags, with the additions the *)
(* language keeps for web browsers                                         *)


OctalDigits == {"0", "1", "2", "3", "4", "5", "6", "7"}
HexDigits == Digits \cup {"a", "b", "c", "d", "e", "f", "A", "B", "C", "D", "E", "F"}
AsciiLetters == WordChars \ (Digits \cup {"_"})
LineTerminators == {"\n", "\r", "U+2028", "U+2029"}

DigitValue(c) == CodeOf(c) - 48

HexValue(c) ==
    IF c \in Digits THEN CodeOf(c) - 48
    ELSE IF CodeOf(c) >= 97 THEN CodeOf(c) - 87 ELSE CodeOf(c) - 55

\* the characters of a pattern that do not stand for themselves
SyntaxCharacters == {"^", "$", "\\", ".", "*", "+", "?", "(", ")", "[", "]", "{", "}", "|"}

ReChar(c) == [k |-> "char", c |-> c]
ReNoChar == [k |-> "class", neg |-> FALSE, items |-> <<>>]
\* the code unit an escape of a code stands for
ReOfCode(n) == ReChar(CharOf(n))

ReFail == [ok |-> FALSE, node |-> ReNoChar, pos |-> 0, g |-> 0]
ReDone(node, pos, g) == [ok |-> TRUE, node |-> node, pos |-> pos, g |-> g]

\* the character of the source at i, or no character past its end
SourceAt(s, i) == IF i >= 1 /\ i <= Len(s) THEN s[i] ELSE ""

\* the decimal number written at p: its value and the position after it
RECURSIVE DecimalAt(_, _, _)
DecimalAt(s, p, v) ==
    IF SourceAt(s, p) \in Digits THEN DecimalAt(s, p + 1, 10 * v + DigitValue(s[p]))
    ELSE [value |-> v, pos |-> p]

\* a quantifier at p: * + ? {n} {n,} {n,m}, each lazy when ? follows;
\* max = -1 stands for no upper bound
BracedAt(s, p) ==
    LET a == DecimalAt(s, p + 1, 0)
        b == DecimalAt(s, a.pos + 1, 0)
        none == [some |-> FALSE, min |-> 0, max |-> 0, pos |-> p]
    IN  IF a.pos = p + 1 THEN none
        ELSE IF SourceAt(s, a.pos) = "}"
             THEN [some |-> TRUE, min |-> a.value, max |-> a.value, pos |-> a.pos + 1]
        ELSE IF SourceAt(s, a.pos) # "," THEN none
        ELSE IF SourceAt(s, a.pos + 1) = "}"
             THEN [some |-> TRUE, min |-> a.value, max |-> -1, pos |-> a.pos + 2]
        ELSE IF b.pos > a.pos + 1 /\ SourceAt(s, b.pos) = "}"
             THEN [some |-> TRUE, min |-> a.value, max |-> b.value, pos |-> b.pos + 1]
        ELSE none

QuantifierAt(s, p) ==
    LET c == SourceAt(s, p)
    IN  IF c = "*" THEN [some |-> TRUE, min |-> 0, max |-> -1, pos |-> p + 1]
        ELSE IF c = "+" THEN [some |-> TRUE, min |-> 1, max |-> -1, pos |-> p + 1]
        ELSE IF c = "?" THEN [some |-> TRUE, min |-> 0, max |-> 1, pos |-> p + 1]
        ELSE IF c = "{" THEN BracedAt(s, p)
        ELSE [some |-> FALSE, min |-> 0, max |-> 0, pos |-> p]

\* the atom, with the quantifier that follows it at p; the groups g1+1..g2
\* are those inside the atom
QuantifiedBy(node, p, g1, g2, q, lazy) ==
    IF ~q.some THEN ReDone(node, p, g2)
    ELSE IF q.max # -1 /\ q.min > q.max THEN ReFail
    ELSE ReDone([k |-> "rep", x |-> node, min |-> q.min, max |-> q.max,
                 greedy |-> ~lazy, g1 |-> g1, g2 |-> g2],
                IF lazy THEN q.pos + 1 ELSE q.pos, g2)

QuantifiedLazily(s, node, p, g1, g2, q) ==
    QuantifiedBy(node, p, g1, g2, q, SourceAt(s, q.pos) = "?")

Quantified(s, node, p, g1, g2) ==
    QuantifiedLazily(s, node, p, g1, g2, QuantifierAt(s, p))

\* \0 to \377 written with octal digits, the first at p
OctalAt(s, p) ==
    LET d1 == DigitValue(s[p])
        two == SourceAt(s, p + 1) \in OctalDigits
        three == two /\ d1 <= 3 /\ SourceAt(s, p + 2) \in OctalDigits
    IN  IF three
        THEN [node |-> ReOfCode(64 * d1 + 8 * DigitValue(s[p + 1]) + DigitValue(s[p + 2])),
              pos |-> p + 3]
        ELSE IF two
        THEN [node |-> ReOfCode(8 * d1 + DigitValue(s[p + 1])), pos |-> p + 2]
        ELSE [node |-> ReOfCode(d1), pos |-> p + 1]

\* the escapes of one character, the character after the backslash at p;
\* inside a class \c also takes a digit or _
CharacterEscapeAt(s, p, inClass) ==
    LET e == s[p]
        hex(i) == HexValue(s[p + i])
        isHex(i) == SourceAt(s, p + i) \in HexDigits
    IN  IF e = "f" THEN [node |-> ReChar("\f"), pos |-> p + 1]
        ELSE IF e = "n" THEN [node |-> ReChar("\n"), pos |-> p + 1]
        ELSE IF e = "r" THEN [node |-> ReChar("\r"), pos |-> p + 1]
        ELSE IF e = "t" THEN [node |-> ReChar("\t"), pos |-> p + 1]
        ELSE IF e = "v" THEN [node |-> ReOfCode(11), pos |-> p + 1]
        ELSE IF e = "c"
             THEN IF \/ SourceAt(s, p + 1) \in AsciiLetters
                     \/ inClass /\ SourceAt(s, p + 1) \in Digits \cup {"_"}
                  THEN [node |-> ReOfCode(CodeOf(s[p + 1]) % 32), pos |-> p + 2]
                  ELSE [node |-> ReChar("\\"), pos |-> p]
        ELSE IF e = "x"
             THEN IF isHex(1) /\ isHex(2)
                  THEN [node |-> ReOfCode(16 * hex(1) + hex(2)), pos |-> p + 3]
                  ELSE [node |-> ReChar("x"), pos |-> p + 1]
        ELSE IF e = "u"
             THEN IF isHex(1) /\ isHex(2) /\ isHex(3) /\ isHex(4)
                  THEN [node |-> ReOfCode(4096 * hex(1) + 256 * hex(2) + 16 * hex(3) + hex(4)),
                        pos |-> p + 5]
                  ELSE [node |-> ReChar("u"), pos |-> p + 1]
        ELSE IF e \in OctalDigits THEN OctalAt(s, p)
        ELSE [node |-> ReChar(e), pos |-> p + 1]

ClassEscapes == {"d", "D", "s", "S", "w", "W"}

\* one member of a class at q: a character or one of \d \D \s \S \w \W
ClassAtomOf(e) ==
    IF e.node.k = "char"
    THEN [ok |-> TRUE, set |-> FALSE, c |-> e.node.c, pos |-> e.pos]
    ELSE [ok |-> TRUE, set |-> FALSE, c |-> "", pos |-> e.pos]

\* named: the pattern has a named group, and then \k is no escape of k
ClassAtomAt(s, q, named) ==
    IF s[q] # "\\" THEN [ok |-> TRUE, set |-> FALSE, c |-> s[q], pos |-> q + 1]
    ELSE IF q + 1 > Len(s) THEN [ok |-> FALSE, set |-> FALSE, c |-> "", pos |-> q]
    ELSE IF s[q + 1] \in ClassEscapes
         THEN [ok |-> TRUE, set |-> TRUE, c |-> s[q + 1], pos |-> q + 2]
    ELSE IF s[q + 1] = "b" THEN [ok |-> TRUE, set |-> FALSE, c |-> CHARS[9], pos |-> q + 2]
    ELSE IF s[q + 1] = "k" /\ named
         THEN [ok |-> FALSE, set |-> FALSE, c |-> "", pos |-> q]
    ELSE ClassAtomOf(CharacterEscapeAt(s, q + 1, TRUE))

ClassItem(a) == IF a.set THEN [k |-> "esc", e |-> a.c, lo |-> 0, hi |-> 0]
                ELSE [k |-> "c", e |-> a.c, lo |-> 0, hi |-> 0]

\* the members of a class from q up to its ]
RECURSIVE ClassItemsAt(_, _, _, _)

\* a - b inside a class: a range, or three members when a or b is a set
ClassRangeAt(s, q, acc, named, a, b) ==
    IF ~b.ok THEN [ok |-> FALSE, items |-> acc, pos |-> q]
    ELSE IF a.set \/ b.set
    THEN ClassItemsAt(s, b.pos,
             acc \o <<ClassItem(a), [k |-> "c", e |-> "-", lo |-> 0, hi |-> 0],
                      ClassItem(b)>>, named)
    ELSE IF CodeOf(a.c) > CodeOf(b.c)
    THEN [ok |-> FALSE, items |-> acc, pos |-> q]
    ELSE ClassItemsAt(s, b.pos,
             Append(acc, [k |-> "range", e |-> "", lo |-> CodeOf(a.c),
                          hi |-> CodeOf(b.c)]), named)

\* the members of a class from its member a at q on
ClassItemsAfter(s, q, acc, named, a) ==
    IF ~a.ok THEN [ok |-> FALSE, items |-> acc, pos |-> q]
    ELSE IF SourceAt(s, a.pos) = "-" /\ SourceAt(s, a.pos + 1) \notin {"", "]"}
    THEN ClassRangeAt(s, q, acc, named, a, ClassAtomAt(s, a.pos + 1, named))
    ELSE ClassItemsAt(s, a.pos, Append(acc, ClassItem(a)), named)

ClassItemsAt(s, q, acc, named) ==
    IF q > Len(s) THEN [ok |-> FALSE, items |-> acc, pos |-> q]
    ELSE IF s[q] = "]" THEN [ok |-> TRUE, items |-> acc, pos |-> q + 1]
    ELSE ClassItemsAfter(s, q, acc, named, ClassAtomAt(s, q, named))

ClassOf(neg, r, g) ==
    IF ~r.ok THEN ReFail
    ELSE ReDone([k |-> "class", neg |-> neg, items |-> r.items], r.pos, g)

ClassFrom(s, p, g, named, neg) ==
    ClassOf(neg, ClassItemsAt(s, IF neg THEN p + 2 ELSE p + 1, <<>>, named), g)

\* [ ... ] and [^ ... ] at p
ClassAt(s, p, g, named) == ClassFrom(s, p, g, named, SourceAt(s, p + 1) = "^")

\* IdentifierStartChar and IdentifierPartChar of the language
IdentifierStart(cp) == cp \in {36, 95} \/ InRuns(cp, ID_START)
IdentifierPart(cp) ==
    \/ IdentifierStart(cp)
    \/ cp \in {\h200C, \h200D}
    \/ InRuns(cp, ID_CONTINUE_ONLY)

NoCodePoint == [ok |-> FALSE, cp |-> 0, pos |-> 0]

\* the value of the hexadecimal digits from i on, no more than max
RECURSIVE HexNumberAt(_, _, _, _)
HexNumberAt(s, i, v, max) ==
    IF v > max THEN NoCodePoint
    ELSE IF SourceAt(s, i) \in HexDigits
    THEN HexNumberAt(s, i + 1, 16 * v + HexValue(s[i]), max)
    ELSE [ok |-> TRUE, cp |-> v, pos |-> i]

\* \u{ ... } with the number n read after the { at i + 2
BracedCodePoint(s, i, n) ==
    IF n.ok /\ n.pos > i + 3 /\ SourceAt(s, n.pos) = "}"
    THEN [ok |-> TRUE, cp |-> n.cp, pos |-> n.pos + 1]
    ELSE NoCodePoint

\* four hexadecimal digits from i on
FourHexAt(s, i) ==
    IF \A k \in 0..3 : SourceAt(s, i + k) \in HexDigits
    THEN [ok |-> TRUE,
          cp |-> 4096 * HexValue(s[i]) + 256 * HexValue(s[i + 1])
                     + 16 * HexValue(s[i + 2]) + HexValue(s[i + 3]),
          pos |-> i + 4]
    ELSE NoCodePoint

\* \uXXXX with the value a read at i + 2 and the value b of a \uXXXX after
\* it: a high and a low surrogate make one code point
EscapedCodePoint(s, i, a, b) ==
    IF /\ a.ok
       /\ a.cp >= \hD800 /\ a.cp <= \hDBFF
       /\ SourceAt(s, i + 6) = "\\" /\ SourceAt(s, i + 7) = "u"
       /\ b.ok
       /\ b.cp >= \hDC00 /\ b.cp <= \hDFFF
    THEN [ok |-> TRUE, cp |-> \h10000 + 1024 * (a.cp - \hD800) + (b.cp - \hDC00),
          pos |-> b.pos]
    ELSE a

\* one code point of a group's name at i: written out, or as \uXXXX, two
\* \uXXXX of a surrogate pair, or \u{X...}
NameCodePointAt(s, i) ==
    IF s[i] # "\\"
    THEN [ok |-> TRUE, cp |-> CodePointAt(s, i),
          pos |-> IF CodePointAt(s, i) >= \h10000 THEN i + 2 ELSE i + 1]
    ELSE IF SourceAt(s, i + 1) # "u" THEN NoCodePoint
    ELSE IF SourceAt(s, i + 2) = "{"
    THEN BracedCodePoint(s, i, HexNumberAt(s, i + 3, 0, \h10FFFF))
    ELSE EscapedCodePoint(s, i, FourHexAt(s, i + 2), FourHexAt(s, i + 8))

\* the code points of the name written in raw from i on, after those of acc
RECURSIVE NameFrom(_, _, _)
NameAfter(raw, acc, c) ==
    IF /\ c.ok
       /\ IF acc = <<>> THEN IdentifierStart(c.cp) ELSE IdentifierPart(c.cp)
    THEN NameFrom(raw, c.pos, Append(acc, c.cp))
    ELSE [ok |-> FALSE, name |-> <<>>]

NameFrom(raw, i, acc) ==
    IF i > Len(raw) THEN [ok |-> acc # <<>>, name |-> acc]
    ELSE NameAfter(raw, acc, NameCodePointAt(raw, i))

\* the name of a group, written from p up to its >: its code points
GroupNameAt(s, p) ==
    LET Q == {q \in p..Len(s) : s[q] = ">"}
    IN  IF Q = {} THEN [ok |-> FALSE, name |-> <<>>, pos |-> p]
        ELSE LET q == SetMin(Q)
                 name == NameFrom(SubSeq(s, p, q - 1), 1, <<>>)
             IN  [ok |-> name.ok, name |-> name.name, pos |-> q + 1]

\* the character at p follows a \ that escapes it: the \ before it are odd
\* in number
Escaped(s, p) ==
    LET others == {q \in 1..(p - 1) : s[q] # "\\"}
    IN  (p - 1 - (IF others = {} THEN 0 ELSE SetMax(others))) % 2 = 1

\* the character at p is inside a class: a [ is open since the last ]
InClass(s, p) ==
    LET closers == {q \in 1..(p - 1) : s[q] = "]" /\ ~Escaped(s, q)}
        closed == IF closers = {} THEN 0 ELSE SetMax(closers)
    IN  \E q \in (closed + 1)..(p - 1) : s[q] = "[" /\ ~Escaped(s, q)

\* the opening parentheses of the capture groups
CapturePositions(s) ==
    {p \in 1..Len(s) :
        /\ s[p] = "("
        /\ ~Escaped(s, p)
        /\ ~InClass(s, p)
        /\ \/ SourceAt(s, p + 1) # "?"
           \/ SourceAt(s, p + 2) = "<" /\ SourceAt(s, p + 3) \notin {"=", "!"}}

\* the capture groups of a source in the order of their opening parentheses,
\* each by its name, <<>> for a group without one
GroupsAt(s, P) ==
    [i \in 1..Cardinality(P) |->
        LET p == CHOOSE q \in P : Cardinality({o \in P : o < q}) = i - 1
        IN  IF SourceAt(s, p + 1) # "?" THEN <<>> ELSE GroupNameAt(s, p + 3).name]

ScanGroups(s) == GroupsAt(s, CapturePositions(s))

RegExpContext(s) == [s |-> s, groups |-> ScanGroups(s)]

HasNamedGroups(cx) == \E i \in 1..Len(cx.groups) : cx.groups[i] # <<>>

RECURSIVE DisjunctionAt(_, _, _)
RECURSIVE AlternativeAt(_, _, _)
RECURSIVE TermAt(_, _, _)
RECURSIVE AtomAt(_, _, _)

\* the parse d of a group's body, which its ) must follow
ClosedBody(cx, d) ==
    IF d.ok /\ SourceAt(cx.s, d.pos) = ")" THEN ReDone(d.node, d.pos + 1, d.g)
    ELSE ReFail

\* a group's body from p up to its )
GroupBodyAt(cx, p, g) == ClosedBody(cx, DisjunctionAt(cx, p, g))

\* \k<name>, the name read from the source
NamedBackrefAt(cx, p, g, name) ==
    IF /\ SourceAt(cx.s, p + 2) = "<"
       /\ name.ok
       /\ \E i \in 1..Len(cx.groups) : cx.groups[i] = name.name
    THEN ReDone([k |-> "backref",
                 i |-> CHOOSE i \in 1..Len(cx.groups) : cx.groups[i] = name.name],
                name.pos, g)
    ELSE ReFail

\* \1 to \9..., the number n read from the source, or the escape c of one
\* character where no group has that number
BackrefOrEscape(cx, e, g, n, c) ==
    IF e \in Digits \ {"0"} /\ n.value <= Len(cx.groups)
    THEN ReDone([k |-> "backref", i |-> n.value], n.pos, g)
    ELSE ReDone(c.node, c.pos, g)

\* \ and what follows it, outside a class
AtomEscapeAt(cx, p, g) ==
    LET s == cx.s
        e == SourceAt(s, p + 1)
    IN  IF e = "" THEN ReFail
        ELSE IF e \in ClassEscapes
        THEN ReDone([k |-> "class", neg |-> FALSE,
                     items |-> <<[k |-> "esc", e |-> e, lo |-> 0, hi |-> 0]>>], p + 2, g)
        ELSE IF e \in Digits \ {"0"}
        THEN BackrefOrEscape(cx, e, g, DecimalAt(s, p + 1, 0),
                             CharacterEscapeAt(s, p + 1, FALSE))
        ELSE IF e = "k" /\ HasNamedGroups(cx)
        THEN NamedBackrefAt(cx, p, g, GroupNameAt(s, p + 3))
        ELSE BackrefOrEscape(cx, e, g, [value |-> 0, pos |-> 0],
                             CharacterEscapeAt(s, p + 1, FALSE))

\* the capture group g + 1 of the parsed body
CapturedGroup(g, body) ==
    IF body.ok
    THEN ReDone([k |-> "group", i |-> g + 1, x |-> body.node], body.pos, body.g)
    ELSE ReFail

\* (?<name> ... ), the name read from the source
NamedGroupAt(cx, g, name) ==
    IF /\ name.ok
       /\ Cardinality({i \in 1..Len(cx.groups) : cx.groups[i] = name.name}) = 1
    THEN CapturedGroup(g, GroupBodyAt(cx, name.pos, g + 1))
    ELSE ReFail

AtomAt(cx, p, g) ==
    LET s == cx.s
        c == s[p]
        c1 == SourceAt(s, p + 1)
        c2 == SourceAt(s, p + 2)
    IN  CASE c = "." -> ReDone([k |-> "any"], p + 1, g)
          [] c = "[" -> ClassAt(s, p, g, HasNamedGroups(cx))
          [] c = "\\" -> AtomEscapeAt(cx, p, g)
          [] c \in {"*", "+", "?", ")"} -> ReFail
          [] c = "{" /\ BracedAt(s, p).some -> ReFail
          [] c = "(" /\ c1 # "?" -> CapturedGroup(g, GroupBodyAt(cx, p + 1, g + 1))
          [] c = "(" /\ c1 = "?" /\ c2 = ":" -> GroupBodyAt(cx, p + 3, g)
          [] c = "(" /\ c1 = "?" /\ c2 = "<" -> NamedGroupAt(cx, g, GroupNameAt(s, p + 3))
          [] c = "(" /\ c1 = "?" /\ c2 \notin {":", "<"} -> ReFail
          [] OTHER -> ReDone(ReChar(c), p + 1, g)

\* (?= ... ) and (?! ... ) of the parsed body, with the quantifier after it
LookaheadOf(s, g, neg, ahead) ==
    IF ahead.ok
    THEN Quantified(s, [k |-> "look", fwd |-> TRUE, neg |-> neg, x |-> ahead.node],
                    ahead.pos, g, ahead.g)
    ELSE ReFail

\* (?<= ... ) and (?<! ... ) of the parsed body
LookbehindOf(neg, behind) ==
    IF behind.ok
    THEN ReDone([k |-> "look", fwd |-> FALSE, neg |-> neg, x |-> behind.node],
                behind.pos, behind.g)
    ELSE ReFail

\* the parsed atom with the quantifier after it
QuantifiedAtom(s, g, atom) ==
    IF atom.ok THEN Quantified(s, atom.node, atom.pos, g, atom.g) ELSE ReFail

TermAt(cx, p, g) ==
    LET s == cx.s
        c == s[p]
        c1 == SourceAt(s, p + 1)
        c2 == SourceAt(s, p + 2)
        c3 == SourceAt(s, p + 3)
    IN  CASE c = "^" -> ReDone([k |-> "bol"], p + 1, g)
          [] c = "$" -> ReDone([k |-> "eol"], p + 1, g)
          [] c = "\\" /\ c1 = "b" -> ReDone([k |-> "wordb", neg |-> FALSE], p + 2, g)
          [] c = "\\" /\ c1 = "B" -> ReDone([k |-> "wordb", neg |-> TRUE], p + 2, g)
          [] c = "(" /\ c1 = "?" /\ c2 \in {"=", "!"} ->
                 LookaheadOf(s, g, c2 = "!", GroupBodyAt(cx, p + 3, g))
          [] c = "(" /\ c1 = "?" /\ c2 = "<" /\ c3 \in {"=", "!"} ->
                 LookbehindOf(c3 = "!", GroupBodyAt(cx, p + 4, g))
          [] OTHER -> QuantifiedAtom(s, g, AtomAt(cx, p, g))

\* the terms of an alternative read so far: xs, up to pos, with g groups
NoTerms(p, g) == [ok |-> TRUE, pos |-> p, g |-> g, xs |-> <<>>]

\* the terms read so far and the term t after them
WithTerm(acc, t) ==
    IF t.ok THEN [ok |-> TRUE, pos |-> t.pos, g |-> t.g, xs |-> Append(acc.xs, t.node)]
    ELSE [ok |-> FALSE, pos |-> 0, g |-> 0, xs |-> <<>>]

\* where the pattern characters from p end: characters that stand for
\* themselves and have no quantifier after them
LiteralsEnd(s, p) ==
    LET stops == {q \in p..Len(s) :
                     \/ s[q] \in SyntaxCharacters
                     \/ SourceAt(s, q + 1) \in {"*", "+", "?", "{"}}
    IN  IF stops = {} THEN Len(s) + 1 ELSE SetMin(stops)

\* the terms read so far and the pattern characters after them, up to e
WithLiterals(s, acc, e) ==
    [ok |-> TRUE, pos |-> e, g |-> acc.g,
     xs |-> acc.xs \o [i \in 1..(e - acc.pos) |-> ReChar(s[acc.pos + i - 1])]]

\* an alternative: its terms are read one after another up to the end of the
\* source, a | or a )
RECURSIVE AlternativeFrom(_, _)
AlternativeFrom(cx, acc) ==
    CASE ~acc.ok -> ReFail
      [] acc.ok /\ SourceAt(cx.s, acc.pos) \in {"", "|", ")"} ->
             ReDone([k |-> "seq", xs |-> acc.xs], acc.pos, acc.g)
      [] /\ acc.ok
         /\ SourceAt(cx.s, acc.pos) \notin {"", "|", ")"}
         /\ LiteralsEnd(cx.s, acc.pos) > acc.pos ->
             AlternativeFrom(cx, WithLiterals(cx.s, acc, LiteralsEnd(cx.s, acc.pos)))
      [] OTHER -> AlternativeFrom(cx, WithTerm(acc, TermAt(cx, acc.pos, acc.g)))

AlternativeAt(cx, p, g) == AlternativeFrom(cx, NoTerms(p, g))

\* the alternative a followed by the alternatives b after its |
AltOf(a, b) ==
    IF b.ok THEN ReDone([k |-> "alt", a |-> a.node, b |-> b.node], b.pos, b.g)
    ELSE ReFail

DisjunctionAfter(cx, a) ==
    IF ~a.ok THEN ReFail
    ELSE IF SourceAt(cx.s, a.pos) # "|" THEN a
    ELSE AltOf(a, DisjunctionAt(cx, a.pos + 1, a.g))

DisjunctionAt(cx, p, g) == DisjunctionAfter(cx, AlternativeAt(cx, p, g))

\* the pattern of the source s, parsed as d, which must end where s ends
RegExpOf(s, cx, d) ==
    IF d.ok /\ d.pos = Len(s) + 1
    THEN [ok |-> TRUE, node |-> d.node, groups |-> Len(cx.groups)]
    ELSE [ok |-> FALSE, node |-> ReNoChar, groups |-> 0]

RegExpIn(s, cx) == RegExpOf(s, cx, DisjunctionAt(cx, 1, 0))

\* new RegExp(source): ok is FALSE where the constructor throws a SyntaxError
RegExp(s) == RegExpIn(s, RegExpContext(s))

----------------------------------------------------------------------------
(* Matching: the alternatives are tried in their order, a quantifier takes *)
(* as much (lazy: as little) as lets the rest match                        *)

ItemHas(item, ch) ==
    IF item.k = "c" THEN ch = item.e
    ELSE IF item.k = "range" THEN CodeOf(ch) >= item.lo /\ CodeOf(ch) <= item.hi
    ELSE IF item.e = "d" THEN ch \in Digits
    ELSE IF item.e = "D" THEN ch \notin Digits
    ELSE IF item.e = "s" THEN ch \in WS
    ELSE IF item.e = "S" THEN ch \notin WS
    ELSE IF item.e = "w" THEN ch \in WordChars
    ELSE ch \notin WordChars

\* the node takes the one character ch
Takes(x, ch) ==
    IF x.k = "char" THEN ch = x.c
    ELSE IF x.k = "any" THEN ch \notin LineTerminators
    ELSE x.neg # (\E i \in 1..Len(x.items) : ItemHas(x.items[i], ch))

NoCapture == [def |-> FALSE, from |-> 0, to |-> 0]
MatchFailure == [ok |-> FALSE, pos |-> 0, caps |-> <<>>]

Reverse(xs) == [i \in 1..Len(xs) |-> xs[Len(xs) + 1 - i]]

SimpleKinds == {"char", "any", "class"}

\* of the attempts, each with the number k it was made with, the one that
\* matched with the largest k (the smallest when not greedy)
FirstOf(attempts, greedy) ==
    IF \A a \in attempts : ~a.r.ok THEN MatchFailure
    ELSE (CHOOSE a \in attempts :
              /\ a.r.ok
              /\ \A b \in attempts :
                     b.r.ok => IF greedy THEN b.k <= a.k ELSE a.k <= b.k).r

\* the rest of the match: todo holds what is still to be matched, first
\* first, each node with its direction (backwards inside a lookbehind)
RECURSIVE Backtrack(_, _, _, _)
Backtrack(t, todo, pos, caps) ==
    LET kind == IF todo = <<>> THEN "done" ELSE Head(todo).x.k
        x == Head(todo).x
        fwd == Head(todo).fwd
        rest == Tail(todo)
        it(y) == [x |-> y, fwd |-> fwd]
        first == Backtrack(t, <<it(x.a)>> \o rest, pos, caps)
        cleared == [i \in 1..Len(caps) |->
                       IF i > x.g1 /\ i <= x.g2 THEN NoCapture ELSE caps[i]]
        again == Backtrack(t, <<it(x.x), it([k |-> "loop", rep |-> x, start |-> pos])>>
                                  \o rest, pos, cleared)
        skip == Backtrack(t, rest, pos, caps)
        inner == Backtrack(t, <<[x |-> x.x, fwd |-> x.fwd]>>, pos, caps)
        cap == caps[x.i]
        n == cap.to - cap.from
        \* single characters one after another in the same direction are
        \* taken together
        others == {j \in 1..Len(todo) :
                      todo[j].x.k \notin SimpleKinds \/ todo[j].fwd # fwd}
        singles == IF others = {} THEN Len(todo) ELSE SetMin(others) - 1
        taken == IF fwd
                 THEN /\ pos + singles - 1 <= Len(t)
                      /\ \A j \in 1..singles : Takes(todo[j].x, t[pos + j - 1])
                 ELSE /\ pos - singles >= 1
                      /\ \A j \in 1..singles : Takes(todo[j].x, t[pos - j])
        \* a quantified single character: the run of characters it can take
        room == IF fwd THEN Len(t) + 1 - pos ELSE pos - 1
        most == IF x.max = -1 \/ x.max > room THEN room ELSE x.max
        ahead(j) == IF fwd THEN t[pos + j] ELSE t[pos - 1 - j]
        stops == {j \in 0..(most - 1) : ~Takes(x.x, ahead(j))}
        run == IF stops = {} THEN most ELSE SetMin(stops)
    IN  CASE kind = "done" -> [ok |-> TRUE, pos |-> pos, caps |-> caps]
          [] kind \in SimpleKinds /\ taken ->
                 Backtrack(t, SubSeq(todo, singles + 1, Len(todo)),
                           IF fwd THEN pos + singles ELSE pos - singles, caps)
          [] kind \in SimpleKinds /\ ~taken -> MatchFailure
          [] kind = "seq" ->
                 Backtrack(t, [i \in 1..Len(x.xs) |->
                                  it(IF fwd THEN x.xs[i] ELSE x.xs[Len(x.xs) + 1 - i])]
                              \o rest, pos, caps)
          [] kind = "alt" ->
                 IF first.ok THEN first
                 ELSE Backtrack(t, <<it(x.b)>> \o rest, pos, caps)
          [] kind = "group" ->
                 Backtrack(t, <<it(x.x), it([k |-> "close", i |-> x.i, start |-> pos])>>
                              \o rest, pos, caps)
          [] kind = "close" ->
                 Backtrack(t, rest, pos,
                           [caps EXCEPT ![x.i] =
                               IF fwd THEN [def |-> TRUE, from |-> x.start, to |-> pos]
                               ELSE [def |-> TRUE, from |-> pos, to |-> x.start]])
          [] kind = "rep" /\ x.x.k \in SimpleKinds ->
                 FirstOf({[k |-> k,
                           r |-> Backtrack(t, rest, IF fwd THEN pos + k ELSE pos - k, caps)] :
                             k \in x.min..run}, x.greedy)
          [] kind = "rep" /\ x.x.k \notin SimpleKinds ->
                 IF x.max = 0 THEN skip
                 ELSE IF x.min # 0 THEN again
                 ELSE IF x.greedy THEN (IF again.ok THEN again ELSE skip)
                 ELSE (IF skip.ok THEN skip ELSE again)
          [] kind = "loop" ->
                 IF x.rep.min = 0 /\ pos = x.start THEN MatchFailure
                 ELSE Backtrack(t, <<it([x.rep EXCEPT
                                           !.min = IF @ = 0 THEN 0 ELSE @ - 1,
                                           !.max = IF @ = -1 THEN -1 ELSE @ - 1])>>
                                   \o rest, pos, caps)
          [] kind = "look" ->
                 IF x.neg
                 THEN (IF inner.ok THEN MatchFailure ELSE skip)
                 ELSE (IF inner.ok THEN Backtrack(t, rest, pos, inner.caps)
                       ELSE MatchFailure)
          [] kind = "backref" ->
                 IF ~cap.def THEN skip
                 ELSE IF fwd
                 THEN IF /\ pos + n - 1 <= Len(t)
                         /\ SubSeq(t, pos, pos + n - 1) = SubSeq(t, cap.from, cap.to - 1)
                      THEN Backtrack(t, rest, pos + n, caps) ELSE MatchFailure
                 ELSE IF /\ pos - n >= 1
                         /\ SubSeq(t, pos - n, pos - 1) = SubSeq(t, cap.from, cap.to - 1)
                      THEN Backtrack(t, rest, pos - n, caps) ELSE MatchFailure
          [] kind = "bol" /\ pos = 1 -> Backtrack(t, rest, pos, caps)
          [] kind = "eol" /\ pos = Len(t) + 1 -> Backtrack(t, rest, pos, caps)
          [] kind = "wordb" /\ WordBoundary(t, pos) # x.neg -> Backtrack(t, rest, pos, caps)
          [] OTHER -> MatchFailure

\* the attempt at position p
ExecAt(re, t, p) ==
    Backtrack(t, <<[x |-> re.node, fwd |-> TRUE]>>, p, [i \in 1..re.groups |-> NoCapture])

\* the attempt r at position p as a match
ExecResult(p, r) ==
    IF r.ok THEN [ok |-> TRUE, at |-> p, end |-> r.pos, caps |-> r.caps]
    ELSE [ok |-> FALSE, at |-> 0, end |-> 0, caps |-> <<>>]

\* the first of the positions starts, with the attempt made there
ExecFirst(re, t, starts) ==
    IF starts = {} THEN [ok |-> FALSE, at |-> 0, end |-> 0, caps |-> <<>>]
    ELSE ExecResult(SetMin(starts), ExecAt(re, t, SetMin(starts)))

\* the first match at or after p: the expression is tried at each position
ExecFrom(re, t, p) ==
    ExecFirst(re, t, {q \in p..(Len(t) + 1) : ExecAt(re, t, q).ok})

\* String.prototype.match with an expression without the g flag
StringMatch(t, re) ==
    IF re.ok THEN ExecFrom(re, t, 1)
    ELSE [ok |-> FALSE, at |-> 0, end |-> 0, caps |-> <<>>]

----------------------------------------------------------------------------

\* the two parts of the source around ${componentName}:
\*   import\s+{[^}]*\b   and   \b[^}]*}\s+from\s+['"]([^'"]+)['"]
IMPORT_SOURCE_HEAD ==
    IMPORT \o <<"\\", "s", "+", "{", "[", "^", "}", "]", "*", "\\", "b">>
IMPORT_SOURCE_TAIL ==
    <<"\\", "b", "[", "^", "}", "]", "*", "}", "\\", "s", "+">> \o FROM
    \o <<"\\", "s", "+", "[", "'", "\"", "]", "(", "[", "^", "'", "\"", "]", "+", ")",
         "[", "'", "\"", "]">>

ComponentImportSource(name) == IMPORT_SOURCE_HEAD \o name \o IMPORT_SOURCE_TAIL

\* new RegExp(...) of line 30 throws
RegExpThrows(name) == ~RegExp(ComponentImportSource(name)).ok

\* content.match(new RegExp(...)): the first match; cap is the text of
\* group 1, componentImportMatch[1], which is the first group of the name
\* when the name has one, and undefined when that group took no part
FirstGroupOf(t, m) ==
    IF ~m.ok THEN NoMatch
    ELSE IF ~m.caps[1].def
    THEN [ok |-> TRUE, cap |-> UNDEFINED_TEXT, at |-> m.at, capAt |-> 0, end |-> m.end]
    ELSE [ok |-> TRUE, cap |-> SubSeq(t, m.caps[1].from, m.caps[1].to - 1),
          at |-> m.at, capAt |-> m.caps[1].from, end |-> m.end]

ComponentImportMatch(t, name) ==
    FirstGroupOf(t, StringMatch(t, RegExp(ComponentImportSource(name))))

\* the segments of a path: what stands before, between and after its slashes
SegmentsAt(s, cuts) ==
    [i \in 1..(Cardinality(cuts) - 1) |->
        SubSeq(s, 1 + (CHOOSE c \in cuts : Cardinality({d \in cuts : d < c}) = i - 1),
               (CHOOSE c \in cuts : Cardinality({d \in cuts : d < c}) = i) - 1)]

SplitPath(s) == SegmentsAt(s, {0, Len(s) + 1} \cup {i \in 1..Len(s) : s[i] = "/"})

\* the segments joined by slashes
RECURSIVE JoinSegments(_)
JoinSegments(segs) ==
    IF segs = <<>> THEN <<>>
    ELSE IF Len(segs) = 1 THEN Head(segs)
    ELSE Head(segs) \o <<"/">> \o JoinSegments(Tail(segs))

DOTDOT == <<".", ".">>

\* process.cwd()
CWD == <<"/", "r", "/", "p">>

\* the segments of a path with its empty and "." segments dropped and each
\* ".." resolved against the segment before it; a ".." with nothing before it
\* is kept only when the path may lead above its start (a relative path)
RECURSIVE normalizeString(_, _, _)
normalizeString(segs, allowAboveRoot, acc) ==
    IF segs = <<>> THEN acc
    ELSE LET h == Head(segs)
         IN  IF h = <<>> \/ h = <<".">>
             THEN normalizeString(Tail(segs), allowAboveRoot, acc)
             ELSE IF h # DOTDOT
             THEN normalizeString(Tail(segs), allowAboveRoot, Append(acc, h))
             ELSE IF acc # <<>> /\ acc[Len(acc)] # DOTDOT
             THEN normalizeString(Tail(segs), allowAboveRoot, SubSeq(acc, 1, Len(acc) - 1))
             ELSE IF allowAboveRoot
             THEN normalizeString(Tail(segs), allowAboveRoot, Append(acc, DOTDOT))
             ELSE normalizeString(Tail(segs), allowAboveRoot, acc)

\* path.normalize: the root of an absolute path and a trailing slash are kept
PathNormalize(p) ==
    IF p = <<>> THEN <<".">>
    ELSE LET isAbsolute == p[1] = "/"
             trailingSeparator == p[Len(p)] = "/"
             body == JoinSegments(normalizeString(SplitPath(p), ~isAbsolute, <<>>))
         IN  IF body = <<>>
             THEN IF isAbsolute THEN <<"/">>
                  ELSE IF trailingSeparator THEN <<".", "/">> ELSE <<".">>
             ELSE (IF isAbsolute THEN <<"/">> ELSE <<>>) \o body
                      \o (IF trailingSeparator THEN <<"/">> ELSE <<>>)

\* path.join(a, b): the arguments that are not empty, joined and normalized
PathJoin(a, b) ==
    LET joined == IF a = <<>> THEN b
                  ELSE IF b = <<>> THEN a
                  ELSE a \o <<"/">> \o b
    IN  IF joined = <<>> THEN <<".">> ELSE PathNormalize(joined)

\* path.resolve(p): absolute, normalized, without a trailing slash
PathResolve(p) ==
    LET absolute == IF p # <<>> /\ p[1] = "/" THEN p ELSE CWD \o <<"/">> \o p
    IN  <<"/">> \o JoinSegments(normalizeString(SplitPath(absolute), FALSE, <<>>))

\* path.dirname: the path up to the last slash that has a name after it
PathDirname(p) ==
    LET ends == {j \in 2..Len(p) : p[j] = "/" /\ \E k \in (j + 1)..Len(p) : p[k] # "/"}
        end == CHOOSE j \in ends : \A k \in ends : k <= j
    IN  IF p = <<>> THEN <<".">>
        ELSE IF ends = {} THEN (IF p[1] = "/" THEN <<"/">> ELSE <<".">>)
        ELSE IF p[1] = "/" /\ end = 2 THEN <<"/", "/">>
        ELSE SubSeq(p, 1, end - 1)

\* path.basename: the last name of the path, trailing slashes left out
PathBasename(p) ==
    LET named == {j \in 1..Len(p) : p[j] # "/"}
        end == CHOOSE j \in named : \A k \in named : k <= j
        slashes == {j \in 1..end : p[j] = "/"}
        start == IF slashes = {} THEN 1
                 ELSE 1 + CHOOSE j \in slashes : \A k \in slashes : k <= j
    IN  IF named = {} THEN <<>> ELSE SubSeq(p, start, end)

\* path.extname: from the last dot of the base name, when that dot is not its
\* first character and the base name is not ".."
PathExtname(p) ==
    LET b == PathBasename(p)
        dots == {i \in 1..Len(b) : b[i] = "."}
        startDot == CHOOSE i \in dots : \A k \in dots : k <= i
    IN  IF dots = {} \/ b = DOTDOT THEN <<>>
        ELSE IF startDot = 1 THEN <<>>
        ELSE SubSeq(b, startDot, Len(b))

\* the length of the longest common prefix of two sequences
RECURSIVE CommonPrefixLen(_, _)
CommonPrefixLen(a, b) ==
    IF a = <<>> \/ b = <<>> \/ Head(a) # Head(b) THEN 0
    ELSE 1 + CommonPrefixLen(Tail(a), Tail(b))

\* the segments of a path made absolute
AbsSegments(f) == normalizeString(SplitPath(PathResolve(f)), FALSE, <<>>)

\* path.relative(from, to): '' when they are the same path
PathRelative(from, to) ==
    LET f == AbsSegments(from)
        t == AbsSegments(to)
        k == CommonPrefixLen(f, t)
    IN  JoinSegments([i \in 1..(Len(f) - k) |-> DOTDOT] \o SubSeq(t, k + 1, Len(t)))

BRACE_EXTENSIONS == <<".", "{", "j", "s", ",", "j", "s", "x", ",", "t", "s", ",", "t", "s", "x", "}">>
INDEX_BRACE_EXTENSIONS == <<"/", "i", "n", "d", "e", "x", ".", "{", "j", "s", ",", "j", "s", "x", ",", "t", "s", ",", "t", "s", "x", "}">>
Extensions == {<<"j", "s">>, <<"j", "s", "x">>, <<"t", "s">>, <<"t", "s", "x">>}
NODE_MODULES == <<"n", "o", "d", "e", "_", "m", "o", "d", "u", "l", "e", "s">>

\* the candidates with the index pattern first
PossibleComponentPathsIndexFirst(storyDir, importPath) ==
    << PathJoin(storyDir, importPath \o INDEX_BRACE_EXTENSIONS),
       PathJoin(storyDir, importPath \o BRACE_EXTENSIONS) >>

\* possibleComponentPaths
PossibleComponentPaths(storyDir, importPath) ==
    << PathJoin(storyDir, importPath \o BRACE_EXTENSIONS),
       PathJoin(storyDir, importPath \o INDEX_BRACE_EXTENSIONS) >>

\* the files a pattern ending in .{js,jsx,ts,tsx} stands for
Expansions(pattern) ==
    LET n == Len(pattern) - Len(BRACE_EXTENSIONS)
    IN  IF n >= 0 /\ SubSeq(pattern, n + 1, Len(pattern)) = BRACE_EXTENSIONS
        THEN {SubSeq(pattern, 1, n) \o <<".">> \o e : e \in Extensions}
        ELSE {pattern}

\* a file on disk: whether readFileSync can read it, and the statements its
\* text is written from
File(src) == [readable |-> TRUE, stmts |-> src]
Unreadable == [readable |-> FALSE, stmts |-> <<>>]

\* glob(pattern, { ignore: ['**/node_modules/**'], cwd: process.cwd() }) over
\* the files on disk, which fs names by their absolute paths: the matches of
\* an absolute pattern are absolute, those of a relative one relative to cwd
Glob(pattern, fs) ==
    {f \in Expansions(pattern) :
        /\ PathResolve(f) \in DOMAIN fs
        /\ \A i \in 1..(Len(SplitPath(f)) - 1) : SplitPath(f)[i] # NODE_MODULES}

\* fs.readFileSync(f, 'utf-8')
CanRead(fs, f) == PathResolve(f) \in DOMAIN fs /\ fs[PathResolve(f)].readable
ReadFile(fs, f) == Text(fs[PathResolve(f)].stmts)

\* a story file as glob('**/*.stories.{js,jsx,ts,tsx}') reports it
StoryFile == <<"s", "r", "c", "/", "B", "u", "t", "t", "o", "n", ".", "s", "t", "o", "r", "i", "e", "s", ".", "t", "s", "x">>
\* line 121, path.join(process.cwd(), file), and line 193,
\* path.join(projectRoot, file) with the project root '.'
StoryPath == PathJoin(CWD, StoryFile)
StoryPathInProject == PathJoin(<<".">>, StoryFile)
FButtonTsx == <<"/", "r", "/", "p", "/", "s", "r", "c", "/", "B", "u", "t", "t", "o", "n", ".", "t", "s", "x">>
FButtonJs == <<"/", "r", "/", "p", "/", "s", "r", "c", "/", "B", "u", "t", "t", "o", "n", ".", "j", "s">>
FButtonIndex == <<"/", "r", "/", "p", "/", "s", "r", "c", "/", "B", "u", "t", "t", "o", "n", "/", "i", "n", "d", "e", "x", ".", "t", "s">>
FUiIndex == <<"/", "r", "/", "p", "/", "s", "r", "c", "/", "u", "i", "/", "i", "n", "d", "e", "x", ".", "t", "s", "x">>
FCard == <<"/", "r", "/", "p", "/", "s", "r", "c", "/", "C", "a", "r", "d", ".", "t", "s", "x">>

IdButton == <<"B", "u", "t", "t", "o", "n">>
IdCard == <<"C", "a", "r", "d">>
IdIconButton == <<"I", "c", "o", "n", "B", "u", "t", "t", "o", "n">>
PathButton == <<".", "/", "B", "u", "t", "t", "o", "n">>
PathUi == <<".", "/", "u", "i">>
PathIcon == <<".", "/", "I", "c", "o", "n">>
\* the text of component: wrap(Button, opts) up to its first comma
WrapCall == <<"w", "r", "a", "p", "(", "B", "u", "t", "t", "o", "n">>

\* import { <list> } from '<spec>';
NamedImportStmt(list, names, q, spec) ==
    [kind |-> "static", spec |-> spec, names |-> names, field |-> <<>>,
     chars |-> IMPORT \o SP \o <<"{", " ">> \o list \o <<" ", "}">> \o SP \o FROM
               \o SP \o <<q>> \o spec \o <<q>> \o SEMI \o NL]

\* import <id> from '<spec>';
DefaultImportStmt(id, q, spec) ==
    [kind |-> "static", spec |-> spec, names |-> {}, field |-> <<>>,
     chars |-> IMPORT \o SP \o id \o SP \o FROM \o SP \o <<q>> \o spec \o <<q>>
               \o SEMI \o NL]

\* <before>component: <id><after>
MetaStmt(before, id, after) ==
    [kind |-> "meta", spec |-> <<>>, names |-> {}, field |-> id,
     chars |-> before \o COMPONENT_FIELD \o SP \o id \o after \o NL]

\* the text of component: memo(Button), and an identifier and a specifier
\* for the import of another module
MemoCall == <<"m", "e", "m", "o", "(", "B", "u", "t", "t", "o", "n", ")">>
IdMemoButton == <<"m", "e", "m", "o", "B", "u", "t", "t", "o", "n">>
PathX == <<".", "/", "x">>
\* an identifier that holds a dollar sign
IdDollar == <<"$", "B", "t", "n">>

StoryPieces ==
    { NamedImportStmt(IdButton, {IdButton}, "'", PathButton),
      NamedImportStmt(IdCard \o <<",", " ">> \o IdButton, {IdCard, IdButton}, "\"", PathUi),
      NamedImportStmt(IdIconButton, {IdIconButton}, "'", PathIcon),
      NamedImportStmt(IdMemoButton, {IdMemoButton}, "'", PathX),
      NamedImportStmt(IdDollar, {IdDollar}, "'", PathButton),
      DefaultImportStmt(IdButton, "'", PathButton),
      MetaStmt(<<"e", "x", "p", "o", "r", "t", " ", "d", "e", "f", "a", "u", "l", "t", " ", "{", " ">>, IdButton, <<" ", "}", ";">>),
      MetaStmt(<<" ", " ">>, IdCard, <<",">>),
      MetaStmt(<<" ", " ">>, MemoCall, <<",">>),
      MetaStmt(<<" ", " ">>, IdDollar, <<",">>),
      MetaStmt(<<" ", " ">>, WrapCall, <<",", " ", "o", "p", "t", "s", ")", ",">>) }

SrcPlain == << StaticStmt(BindDefault, "'", PathA, SEMI) >>
SrcLazy == << StaticStmt(BindDefault, "'", PathA, SEMI),
              DynamicStmt(IMPORT, "'", PathB, SEMI) >>

FileSystems ==
    { <<>>,
      FButtonTsx :> File(SrcLazy),
      FButtonTsx :> Unreadable,
      (FButtonTsx :> File(SrcLazy)) @@ (FButtonJs :> File(SrcPlain)),
      FButtonIndex :> File(SrcPlain),
      (FUiIndex :> File(SrcLazy)) @@ (FCard :> File(SrcPlain)),
      (FButtonTsx :> File(SrcPlain)) @@ (FButtonIndex :> File(SrcLazy)) }

InitStory ==
    /\ stmts \in SeqsUpTo(StoryPieces, MaxStory)
    /\ content = Text(stmts)
    /\ manifest = NoManifest
    /\ pc = "start"
    /\ res = Null
    /\ report = Null
    /\ filePath \in {StoryPath, StoryPathInProject}
    /\ files \in FileSystems
    /\ pending = <<>>
    /\ queries = <<>>
    /\ imports = Null
    /\ componentFile = None
    /\ ModeIdle
    /\ FlowIdle
    /\ ConfigIdle

\* a component analysis produced whether or not a component file was found
ComponentAnalysisAlways(cf, fs) ==
    Some(analyzeFile(IF cf.present THEN ReadFile(fs, cf.value) ELSE <<>>))

\* analyzeStoryFile, lines 53-56: componentAnalysis
ComponentAnalysis(cf, fs) ==
    IF cf.present THEN Some(analyzeFile(ReadFile(fs, cf.value))) ELSE None

\* line 58: { staticImports, dynamicImports, componentFile, componentAnalysis }
StoryRecord(im, cf, fs) ==
    [staticImports |-> im.staticImports,
     dynamicImports |-> im.dynamicImports,
     componentFile |-> cf,
     componentAnalysis |-> ComponentAnalysis(cf, fs)]

\* analyzeStoryFile, lines 19-23: the story is read, its imports are
\* classified, and the function waits at await analyzeFile(filePath)
StoryStart ==
    /\ pc = "start"
    /\ imports' = analyzeFile(content)
    /\ pc' = "reading"
    /\ UNCHANGED <<stmts, content, manifest, res, report, filePath, files, pending,
                   queries, componentFile>>
    /\ UNCHANGED <<modeVars, configVars, flowVars>>

\* analyzeStoryFile, lines 26-41, and 53-58 when there is nothing to look
\* for: the field, the expression built from its token (new RegExp throws a
\* SyntaxError), the import, the candidates, and the first question to glob
StoryReturnsWithoutComponent ==
    /\ res' = StoryRecord(imports, None, files)
    /\ pc' = "done"
    /\ UNCHANGED <<pending, queries>>

\* lines 34-41: the candidates, and the first of them asked about
StoryAsksFor(possibleComponentPaths) ==
    /\ pending' = possibleComponentPaths
    /\ queries' = <<Head(possibleComponentPaths)>>
    /\ pc' = "resolving"
    /\ res' = res

\* line 32: if (componentImportMatch)
StoryWithImport(componentImportMatch) ==
    IF componentImportMatch.ok
    THEN StoryAsksFor(PossibleComponentPaths(PathDirname(filePath),
                                            componentImportMatch.cap))
    ELSE StoryReturnsWithoutComponent

\* lines 28-30: new RegExp(...) throws, or content.match answers
StoryWithName(componentName) ==
    IF RegExpThrows(componentName)
    THEN /\ pc' = "failed"
         /\ UNCHANGED <<pending, queries, res>>
    ELSE StoryWithImport(ComponentImportMatch(content, componentName))

\* line 27: if (componentMatch)
StoryWithField(componentMatch) ==
    IF componentMatch.ok THEN StoryWithName(Trim(componentMatch.cap))
    ELSE StoryReturnsWithoutComponent

StoryResume ==
    /\ pc = "reading"
    /\ StoryWithField(ComponentMatch(content))
    /\ UNCHANGED <<stmts, content, manifest, report, filePath, files, imports,
                   componentFile>>
    /\ UNCHANGED <<modeVars, configVars, flowVars>>

\* analyzeStoryFile, lines 41-55: glob answers; with a match the loop is
\* left and the component file is read (readFileSync throws when it cannot
\* be) and the function waits at await analyzeFile(componentFile); without
\* one the next candidate is asked for, or the function returns
GlobStep ==
    /\ pc = "resolving"
    /\ LET pattern == Head(pending)
           matches == Glob(pattern, files)
       IN  IF matches # {}
           THEN /\ \E f \in matches :
                      /\ componentFile' = Some(f)
                      /\ pc' = IF CanRead(files, f) THEN "component" ELSE "failed"
                /\ pending' = <<>>
                /\ UNCHANGED <<queries, res>>
           ELSE IF Tail(pending) # <<>>
           THEN /\ pending' = Tail(pending)
                /\ queries' = Append(queries, Head(Tail(pending)))
                /\ pc' = "resolving"
                /\ UNCHANGED <<componentFile, res>>
           ELSE /\ pending' = <<>>
                /\ res' = StoryRecord(imports, None, files)
                /\ pc' = "done"
                /\ UNCHANGED <<componentFile, queries>>
    /\ UNCHANGED <<stmts, content, manifest, report, filePath, files, imports>>
    /\ UNCHANGED <<modeVars, configVars, flowVars>>

\* analyzeStoryFile, lines 55-58: the component's analysis and the return
ComponentStep ==
    /\ pc = "component"
    /\ res' = StoryRecord(imports, componentFile, files)
    /\ pc' = "done"
    /\ UNCHANGED <<stmts, content, manifest, report, storyVars>>
    /\ UNCHANGED <<modeVars, configVars, flowVars>>

NextStory == StoryStart \/ StoryResume \/ GlobStep \/ ComponentStep

SpecStory == InitStory /\ [][NextStory]_vars

MetaIndexes == {i \in 1..Len(stmts) : stmts[i].kind = "meta"}
\* the identifier of the story's component: field
StoryComponentId == stmts[SetMin(MetaIndexes)].field
NamedIndexes(id) == {i \in 1..Len(stmts) : id \in stmts[i].names}
\* the specifier of the named import that imports id
NamedImportPath(id) == stmts[SetMin(NamedIndexes(id))].spec
FilesFor(importPath) ==
    {PathJoin(PathDirname(filePath), importPath) \o <<".">> \o e : e \in Extensions}
\* those of the files of S that are on disk
OnDisk(S) == {f \in S : PathResolve(f) \in DOMAIN files}

\* the analysis has ended with a file of the named import as componentFile
\* and the classifier's result for that file's text as componentAnalysis
AssociatedWithImportedFile ==
    /\ pc = "done"
    /\ res.componentFile.present
    /\ res.componentFile.value \in OnDisk(FilesFor(NamedImportPath(StoryComponentId)))
    /\ res.componentAnalysis.present
    /\ res.componentAnalysis.value
           = [staticImports |->
                  SpecsOf(files[PathResolve(res.componentFile.value)].stmts, "static"),
              dynamicImports |->
                  SpecsOf(files[PathResolve(res.componentFile.value)].stmts, "dynamic")]

\* the story has a component: <Id> field, a named import of <Id> from '<P>'
\* and a file <P>.<ext> beside it, and its analysis has ended
NamedImportResolved ==
    /\ pc \in {"done", "failed"}
    /\ MetaIndexes # {}
    /\ NamedIndexes(StoryComponentId) # {}
    /\ OnDisk(FilesFor(NamedImportPath(StoryComponentId))) # {}

\* C10, as stated: with a component: <Id> field, a named import
\* { ... <Id> ... } from '<P>' and a file <P>.<ext> beside the story, the
\* analysis ends with that file as componentFile and with the classifier's
\* result for its text as componentAnalysis.
C10_AnyIdentifierAnyFile ==
    NamedImportResolved => AssociatedWithImportedFile

\* C11: a story text without a component: field gets no componentFile and no
\* componentAnalysis, and the file resolver is never queried, whatever the
\* text imports and whatever files exist.
C11_NoFieldNoAssociation ==
    MetaIndexes = {}
    => /\ queries = <<>>
       /\ ~componentFile.present
       /\ pc \in {"start", "reading", "done"}
       /\ pc = "done" => /\ ~res.componentFile.present
                         /\ ~res.componentAnalysis.present

C11_Witness ==
    /\ pc = "done"
    /\ MetaIndexes = {}
    /\ NamedIndexes(IdButton) # {}
    /\ NamedImportPath(IdButton) = PathButton
    /\ FButtonTsx \in DOMAIN files
    /\ files[FButtonTsx].readable
    /\ res.staticImports # <<>>

\* the token of the first component: field holds a character that no
\* identifier holds
FieldIsNoIdentifier ==
    /\ MetaIndexes # {}
    /\ \E i \in 1..Len(StoryComponentId) : ~IdentifierPart(CodeOf(StoryComponentId[i]))

\* C12: the associator raises no error on any story text, the files it reads
\* being readable; when the token
\* after component: holds non-identifier characters (an unbalanced
\* parenthesis, other pattern metacharacters) the association ends without a
\* componentFile and the story's own import result is still returned.
C12_AssociatorNeverRaises ==
    /\ (\A f \in DOMAIN files : files[f].readable) => pc # "failed"
    /\ FieldIsNoIdentifier
       => /\ ~componentFile.present
          /\ pc = "done" => /\ ~res.componentFile.present
                            /\ res.staticImports = SpecsOf(stmts, "static")
                            /\ res.dynamicImports = SpecsOf(stmts, "dynamic")

\* C13: in every record of analyze mode componentAnalysis is present exactly
\* when componentFile is present.
C13_AnalysisIffComponentFile ==
    pc = "done" => (res.componentAnalysis.present <=> res.componentFile.present)

C13_Witness ==
    /\ pc = "done"
    /\ res.componentFile.present
    /\ res.componentAnalysis.present
    /\ res.componentAnalysis.value.staticImports = <<PathA>>

----------------------------------------------------------------------------
(* analyze mode: displayResults, the grouping and the totals of the report *)

MaxResults == 3

DigitChars == <<"1", "2", "3", "4", "5", "6", "7", "8", "9">>

\* the path of the i-th discovered story file
StoryFileOf(i) ==
    <<"s", "r", "c", "/", "S">> \o <<DigitChars[i]>>
        \o <<".", "s", "t", "o", "r", "i", "e", "s", ".", "t", "s", "x">>

\* what analyzeStoryFile returns for one file: the story's own imports and,
\* when a component file was found, the component's
StoryAnalyses ==
    { [staticImports |-> s, dynamicImports |-> d, componentFile |-> c.file,
       componentAnalysis |-> c.analysis] :
        s \in {<<>>, <<PathA>>},
        d \in {<<>>, <<PathB>>},
        c \in { [file |-> None, analysis |-> None],
                [file |-> Some(FButtonTsx),
                 analysis |-> Some([staticImports |-> <<PathA, PathA>>,
                                    dynamicImports |-> <<>>])],
                [file |-> Some(FCard),
                 analysis |-> Some([staticImports |-> <<>>,
                                    dynamicImports |-> <<PathB, PathA>>])] } }

\* { file, ...analysis }
WithFile(file, analysis) ==
    [file |-> file,
     staticImports |-> analysis.staticImports,
     dynamicImports |-> analysis.dynamicImports,
     componentFile |-> analysis.componentFile,
     componentAnalysis |-> analysis.componentAnalysis]

HasStoryDynamic(r) == Len(r.dynamicImports) > 0

HasComponentDynamic(r) ==
    r.componentAnalysis.present /\ Len(r.componentAnalysis.value.dynamicImports) > 0

FilesWithDynamicImports(rs) ==
    SelectSeq(rs, LAMBDA r : HasStoryDynamic(r) \/ HasComponentDynamic(r))

StoryFiles(fwd) == SelectSeq(fwd, HasStoryDynamic)

\* the component group taken from the story group
ComponentFilesOfStoryFiles(fwd) == SelectSeq(StoryFiles(fwd), HasComponentDynamic)

ComponentFiles(fwd) == SelectSeq(fwd, HasComponentDynamic)

\* reduce((sum, n) => sum + n, 0)
RECURSIVE Sum(_)
Sum(ns) == IF ns = <<>> THEN 0 ELSE Head(ns) + Sum(Tail(ns))

ComponentStaticCount(r) ==
    IF r.componentAnalysis.present THEN Len(r.componentAnalysis.value.staticImports) ELSE 0

ComponentDynamicCount(r) ==
    IF r.componentAnalysis.present THEN Len(r.componentAnalysis.value.dynamicImports) ELSE 0

StoryStaticCount(r) == Len(r.staticImports)

StoryDynamicCount(r) == Len(r.dynamicImports)

\* the summary box, lines 279-320
Summary(rs, storyFiles, componentFiles) ==
    LET totalStoryStatic == Sum([i \in 1..Len(rs) |-> StoryStaticCount(rs[i])])
        totalStoryDynamic == Sum([i \in 1..Len(rs) |-> StoryDynamicCount(rs[i])])
        totalComponentStatic == Sum([i \in 1..Len(rs) |-> ComponentStaticCount(rs[i])])
        totalComponentDynamic == Sum([i \in 1..Len(rs) |-> ComponentDynamicCount(rs[i])])
    IN  [totalFiles |-> Len(rs),
         totalStoryStatic |-> totalStoryStatic,
         totalStoryDynamic |-> totalStoryDynamic,
         storyFilesWithDynamic |-> Len(storyFiles),
         totalComponentStatic |-> totalComponentStatic,
         totalComponentDynamic |-> totalComponentDynamic,
         componentFilesWithDynamic |-> Len(componentFiles),
         allStatic |-> ~((totalStoryDynamic + totalComponentDynamic) > 0)]

\* displayResults: what the boxes it prints hold
displayResults(rs) ==
    LET filesWithDynamicImports == FilesWithDynamicImports(rs)
    IN  IF Len(filesWithDynamicImports) = 0
        THEN [noDynamicImports |-> TRUE, storyFiles |-> <<>>, componentFiles |-> <<>>,
              summary |-> None]
        ELSE LET storyFiles == StoryFiles(filesWithDynamicImports)
                 componentFiles == ComponentFiles(filesWithDynamicImports)
             IN  [noDynamicImports |-> FALSE,
                  storyFiles |-> storyFiles,
                  componentFiles |-> componentFiles,
                  summary |-> Some(Summary(rs, storyFiles, componentFiles))]

InitReport ==
    /\ stmts = <<>>
    /\ content = <<>>
    /\ manifest = NoManifest
    /\ pc = "start"
    /\ res = Null
    /\ report = Null
    /\ filePath = <<>>
    /\ files = <<>>
    /\ pending = <<>>
    /\ queries = <<>>
    /\ imports = Null
    /\ componentFile = None
    /\ results \in { [i \in 1..Len(as) |-> WithFile(StoryFileOf(i), as[i])] :
                        as \in SeqsUpTo(StoryAnalyses, MaxResults) }
    /\ mode = "none"
    /\ storybookDirs = <<>>
    /\ selectedProject = None
    /\ found = None
    /\ tasks = <<>>
    /\ jobs = <<>>
    /\ shown = <<>>
    /\ exit = None
    /\ ConfigIdle
    /\ FlowIdle

DisplayResultsStep ==
    /\ pc = "start"
    /\ report' = displayResults(results)
    /\ pc' = "reported"
    /\ UNCHANGED <<stmts, content, manifest, res, storyVars, modeVars, configVars, flowVars>>

NextReport == DisplayResultsStep

SpecReport == InitReport /\ [][NextReport]_vars

InSeq(x, s) == \E i \in 1..Len(s) : s[i] = x

\* C14: a record is listed under the story files with dynamic imports exactly
\* when its own dynamicImports is non-empty, and under the component files
\* with dynamic imports exactly when it has a componentAnalysis whose
\* dynamicImports is non-empty; the two memberships are independent.
C14_GroupsDecidedIndependently ==
    pc = "reported"
    => \A i \in 1..Len(results) :
          /\ InSeq(results[i], report.storyFiles)
                <=> results[i].dynamicImports # <<>>
          /\ InSeq(results[i], report.componentFiles)
                <=> /\ results[i].componentAnalysis.present
                    /\ results[i].componentAnalysis.value.dynamicImports # <<>>

C14_Witness ==
    /\ pc = "reported"
    /\ \E i, j, k \in 1..Len(results) :
          /\ InSeq(results[i], report.storyFiles)
          /\ ~InSeq(results[i], report.componentFiles)
          /\ ~InSeq(results[j], report.storyFiles)
          /\ InSeq(results[j], report.componentFiles)
          /\ InSeq(results[k], report.storyFiles)
          /\ InSeq(results[k], report.componentFiles)

\* C15: for an empty list of records the report holds the totals, all zero,
\* and the outcome that no file has dynamic imports.
C15_EmptyListReportsZeroTotals ==
    (pc = "reported" /\ results = <<>>)
    => /\ report.noDynamicImports
       /\ report.summary.present
       /\ report.summary.value.totalFiles = 0
       /\ report.summary.value.totalStoryStatic = 0
       /\ report.summary.value.totalStoryDynamic = 0
       /\ report.summary.value.storyFilesWithDynamic = 0

----------------------------------------------------------------------------
(* analyzeMode and previewMode: discovery, the concurrent per-file          *)
(* analyses under Promise.all, the display and the exit of the process      *)

MaxFiles == 2

DirRoot == <<".", "s", "t", "o", "r", "y", "b", "o", "o", "k">>
DirPackage == <<"p", "k", "g", "/", ".", "s", "t", "o", "r", "y", "b", "o", "o", "k">>
EXIT_CHOICE == <<"e", "x", "i", "t">>

\* what glob('**/.storybook') can find
StorybookDirSets == { <<>>, <<DirRoot>>, <<DirRoot, DirPackage>> }

\* glob('preview.{js,jsx,ts,tsx}'): the i-th preview file
PreviewFileOf(i) == <<"preview.js", "preview.jsx", "preview.ts", "preview.tsx">>[i]

\* the records analyzeStoryFile returns for the story files of a run
ModeStoryAnalyses == {a \in StoryAnalyses : a.staticImports = <<PathA>>}

\* the records analyzePreviewFile returns for the preview files of a run
ModePreviewAnalyses ==
    { analyzePreviewFile(Text(<<p>>), man) :
        p \in { StaticStmt(BindDefault, "'", PathTheme, SEMI),
                DynamicStmt(AWAIT \o SP \o IMPORT, "'", PathWrap, SEMI) },
        man \in { NoManifest,
                  [exists |-> TRUE, readable |-> TRUE, parses |-> TRUE,
                   workspaces |-> <<"packages/*">>] } }

\* a discovered story file: whether readFileSync can read it; what stops its
\* analysis (new RegExp throwing a SyntaxError, line 30, or the component file
\* that cannot be read, line 54); how many candidates glob is asked about;
\* and what the analysis returns when nothing stops it
StoryEntries ==
    { [readable |-> FALSE, raises |-> "none", asks |-> 0, analysis |-> Null],
      [readable |-> TRUE, raises |-> "SyntaxError", asks |-> 0, analysis |-> Null],
      [readable |-> TRUE, raises |-> "component", asks |-> 1, analysis |-> Null] }
    \cup { [readable |-> TRUE, raises |-> "none", asks |-> n, analysis |-> a] :
             a \in {x \in ModeStoryAnalyses : x.componentFile.present}, n \in {1, 2} }
    \cup { [readable |-> TRUE, raises |-> "none", asks |-> n, analysis |-> a] :
             a \in {x \in ModeStoryAnalyses : ~x.componentFile.present}, n \in {0, 2} }

\* a discovered preview file: whether readFileSync can read it, and what its
\* analysis returns when it can
PreviewEntries ==
    { [readable |-> FALSE, raises |-> "none", asks |-> 0, analysis |-> Null] }
    \cup { [readable |-> TRUE, raises |-> "none", asks |-> 0, analysis |-> a] :
             a \in ModePreviewAnalyses }

FileEntries(md) == IF md = "analyze" THEN StoryEntries ELSE PreviewEntries

\* the record of a file carrying the name of the first file discovered
TaskRecordOfFirstFile(md, i, analysis) ==
    IF md = "analyze" THEN WithFile(StoryFileOf(1), analysis)
    ELSE [analysis EXCEPT !.file = PreviewFileOf(1)]

\* return { file, ...analysis }: the record a file's callback resolves to
TaskRecord(md, i, analysis) ==
    IF md = "analyze" THEN WithFile(StoryFileOf(i), analysis)
    ELSE [analysis EXCEPT !.file = PreviewFileOf(i)]

\* a read failure caught per file, the file reported with an empty analysis
StartTaskCaught(md, i, entry) ==
    IF ~entry.readable
    THEN [st |-> "returned", asked |-> 0,
          value |-> IF md = "analyze"
                    THEN [staticImports |-> <<>>, dynamicImports |-> <<>>,
                          componentFile |-> None, componentAnalysis |-> None]
                    ELSE analyzePreviewFile(<<>>, NoManifest)]
    ELSE IF md = "analyze" THEN [st |-> "reading", asked |-> 0, value |-> Null]
    ELSE [st |-> "returned", asked |-> 0, value |-> entry.analysis]

\* the callback of map, run to its first suspension.  readFileSync throwing
\* inside the async analysis rejects its promise, which the callback awaits.
\* analyzeStoryFile has read the file twice and waits at
\* await analyzeFile(filePath); analyzePreviewFile, which awaits nothing,
\* has returned, and the callback waits for its promise.
StartTask(md, i, entry) ==
    IF ~entry.readable THEN [st |-> "threw", asked |-> 0, value |-> Null]
    ELSE IF md = "analyze" THEN [st |-> "reading", asked |-> 0, value |-> Null]
    ELSE [st |-> "returned", asked |-> 0, value |-> entry.analysis]

\* a continuation ready to run: of a file's analysis or callback (task), of
\* Promise.all for a file's promise (element), or of the mode itself
Job(k, i) == [k |-> k, i |-> i]

\* the discovery's outcome taken without the check for no files
NextAfterDiscoveryUnchecked(fs) == "analyze"

\* if (files.length === 0) { displayMessage(...); process.exit(1) }
NextAfterDiscovery(fs) == IF Len(fs) = 0 THEN "notfound" ELSE "analyze"

TitleNoConfig == "No Storybook Config Found"
TitleNoStories == "No Stories Found"
TitleNoPreview == "No Preview Found"
TitleProjects == "Storybook Projects"
TitleStoryFiles == "Story Files"
TitleImportAnalysis == "Import Analysis"
TitleSummary == "Summary"
TitlePreviewAnalysis == "Preview Analysis"
TitleError == "error"

InitMode ==
    /\ stmts = <<>>
    /\ content = <<>>
    /\ manifest = NoManifest
    /\ pc = "start"
    /\ res = Null
    /\ report = Null
    /\ filePath = <<>>
    /\ files = <<>>
    /\ pending = <<>>
    /\ queries = <<>>
    /\ imports = Null
    /\ componentFile = None
    /\ results = <<>>
    /\ mode \in {"analyze", "preview"}
    /\ storybookDirs \in StorybookDirSets
    /\ selectedProject = None
    /\ found = None
    /\ tasks = <<>>
    /\ jobs = <<>>
    /\ shown = <<>>
    /\ exit = None
    /\ ConfigIdle
    /\ FlowIdle

\* glob('**/.storybook') and the branch on its result
FindStorybookDirs ==
    /\ pc = "start"
    /\ IF Len(storybookDirs) = 0
       THEN IF mode = "analyze"
            THEN pc' = "direct" /\ UNCHANGED <<shown, exit, flowVars>>
            ELSE /\ shown' = Append(shown, TitleNoConfig)
                 /\ exit' = Some(1)
                 /\ pc' = "exited"
       ELSE /\ shown' = Append(shown, TitleProjects)
            /\ pc' = "select"
            /\ exit' = exit
    /\ UNCHANGED <<stmts, content, manifest, res, report, storyVars, results, mode,
                   storybookDirs, selectedProject, found, tasks, jobs, configVars, flowVars>>

\* analyzeMode, lines 103-137: without a config directory the story files are
\* looked for directly
FindStoriesDirectly ==
    /\ pc = "direct"
    /\ \E fs \in SeqsUpTo(FileEntries(mode), MaxFiles) :
          /\ found' = Some(fs)
          /\ IF NextAfterDiscovery(fs) = "analyze"
             THEN /\ shown' = Append(shown, TitleStoryFiles)
                  /\ pc' = "analyze"
                  /\ exit' = exit
             ELSE /\ shown' = Append(shown, TitleNoConfig)
                  /\ exit' = Some(1)
                  /\ pc' = "exited"
    /\ UNCHANGED <<stmts, content, manifest, res, report, storyVars, results, mode,
                   storybookDirs, selectedProject, tasks, jobs, configVars, flowVars>>

\* the project prompt
SelectProject ==
    /\ pc = "select"
    /\ \E choice \in {storybookDirs[i] : i \in 1..Len(storybookDirs)} \cup {EXIT_CHOICE} :
          /\ selectedProject' = Some(choice)
          /\ IF choice = EXIT_CHOICE
             THEN exit' = Some(0) /\ pc' = "exited"
             ELSE exit' = exit /\ pc' = "discover"
    /\ UNCHANGED <<stmts, content, manifest, res, report, storyVars, results, mode,
                   storybookDirs, found, tasks, jobs, shown, configVars, flowVars>>

\* glob of the story files under the project root, or of the preview files in
\* the selected directory
DiscoverFiles ==
    /\ pc = "discover"
    /\ \E fs \in SeqsUpTo(FileEntries(mode), MaxFiles) :
          /\ found' = Some(fs)
          /\ IF NextAfterDiscovery(fs) = "analyze"
             THEN /\ shown' = IF mode = "analyze" THEN Append(shown, TitleStoryFiles)
                              ELSE shown
                  /\ pc' = "analyze"
                  /\ exit' = exit
             ELSE /\ shown' = Append(shown, IF mode = "analyze" THEN TitleNoStories
                                            ELSE TitleNoPreview)
                  /\ exit' = Some(1)
                  /\ pc' = "exited"
    /\ UNCHANGED <<stmts, content, manifest, res, report, storyVars, results, mode,
                   storybookDirs, selectedProject, tasks, jobs, configVars, flowVars>>

\* files.map(async (file) => ...): every callback starts, in order, and runs
\* to its first await; then the mode waits for Promise.all
StartAnalyses ==
    /\ pc = "analyze"
    /\ tasks' = [i \in 1..Len(found.value) |-> StartTask(mode, i, found.value[i])]
    /\ jobs' = [i \in 1..Len(found.value) |-> Job("task", i)]
    /\ pc' = "awaiting"
    /\ UNCHANGED <<stmts, content, manifest, res, report, storyVars, results, mode,
                   storybookDirs, selectedProject, found, shown, exit, configVars, flowVars>>

\* Promise.all(promises) is fulfilled when every promise is
PromiseAllFulfilled(ts) == \A i \in 1..Len(ts) : ts[i].st = "fulfilled"

\* Promise.all has settled: the continuation of the mode is ready
Settled(js) == \E n \in 1..Len(js) : js[n].k = "mode"

\* the continuation of file i's analysis or callback, run to its next await
\*   reading:   analyzeStoryFile, lines 26-41 and 53-58
\*   component: analyzeStoryFile, lines 55-58
\*   returned:  the callback, lines 123-124
\*   threw:     the callback, whose await throws
ResumeTask(i) ==
    LET entry == found.value[i]
        task == tasks[i]
    IN  IF task.st = "reading"
        THEN IF entry.raises = "SyntaxError"
             THEN [next |-> [task EXCEPT !.st = "threw"], ready |-> <<Job("task", i)>>]
             ELSE IF entry.asks = 0
             THEN [next |-> [task EXCEPT !.st = "returned", !.value = entry.analysis],
                   ready |-> <<Job("task", i)>>]
             ELSE [next |-> [task EXCEPT !.st = "resolving", !.asked = 1], ready |-> <<>>]
        ELSE IF task.st = "component"
        THEN [next |-> [task EXCEPT !.st = "returned", !.value = entry.analysis],
              ready |-> <<Job("task", i)>>]
        ELSE IF task.st = "returned"
        THEN [next |-> [task EXCEPT !.st = "fulfilled",
                                    !.value = TaskRecord(mode, i, task.value)],
              ready |-> <<Job("element", i)>>]
        ELSE [next |-> [task EXCEPT !.st = "rejected"], ready |-> <<Job("element", i)>>]

\* the next continuation of a file's analysis or of its callback runs
RunTask ==
    /\ pc = "awaiting"
    /\ jobs # <<>>
    /\ Head(jobs).k = "task"
    /\ LET i == Head(jobs).i
       IN  /\ tasks' = [tasks EXCEPT ![i] = ResumeTask(i).next]
           /\ jobs' = Tail(jobs) \o ResumeTask(i).ready
    /\ UNCHANGED <<stmts, content, manifest, pc, res, report, storyVars, results, mode,
                   storybookDirs, selectedProject, found, shown, exit, configVars, flowVars>>

\* analyzeStoryFile, lines 41-55: glob answers file i's analysis once no
\* continuation is ready.  Without a match the next candidate is asked about;
\* after the last, the function returns.  With a match the component file is
\* read (readFileSync throws when it cannot be) and the function waits at
\* await analyzeFile(componentFile).
GlobAnswers ==
    /\ pc = "awaiting"
    /\ jobs = <<>>
    /\ \E i \in 1..Len(tasks) :
          LET entry == found.value[i]
              task == tasks[i]
          IN  /\ task.st = "resolving"
              /\ tasks' = [tasks EXCEPT ![i] =
                    IF task.asked < entry.asks THEN [task EXCEPT !.asked = @ + 1]
                    ELSE IF entry.raises = "component" THEN [task EXCEPT !.st = "threw"]
                    ELSE IF entry.analysis.componentFile.present
                    THEN [task EXCEPT !.st = "component"]
                    ELSE [task EXCEPT !.st = "returned", !.value = entry.analysis]]
              /\ jobs' = IF task.asked < entry.asks THEN <<>> ELSE <<Job("task", i)>>
    /\ UNCHANGED <<stmts, content, manifest, pc, res, report, storyVars, results, mode,
                   storybookDirs, selectedProject, found, shown, exit, configVars, flowVars>>

\* Promise.all takes the outcome of a file's promise: the first rejection
\* rejects it, the last fulfilment fulfils it with the values in the order
\* of the files
RunElement ==
    /\ pc = "awaiting"
    /\ jobs # <<>>
    /\ Head(jobs).k = "element"
    /\ LET rest == Tail(jobs)
           last == ~\E n \in 1..Len(rest) : rest[n].k = "element"
       IN  jobs' = IF Settled(rest) THEN rest
                   ELSE IF tasks[Head(jobs).i].st = "rejected"
                   THEN Append(rest, Job("mode", 0))
                   ELSE IF last /\ PromiseAllFulfilled(tasks)
                   THEN Append(rest, Job("mode", 0))
                   ELSE rest
    /\ UNCHANGED <<stmts, content, manifest, pc, res, report, storyVars, results, mode,
                   storybookDirs, selectedProject, found, tasks, shown, exit, configVars,
                   flowVars>>

\* await Promise.all(...) throws in the mode, which rejects
PromiseAllRejects ==
    /\ pc = "awaiting"
    /\ jobs # <<>>
    /\ Head(jobs).k = "mode"
    /\ \E i \in 1..Len(tasks) : tasks[i].st = "rejected"
    /\ jobs' = Tail(jobs)
    /\ pc' = "thrown"
    /\ UNCHANGED <<stmts, content, manifest, res, report, storyVars, results, mode,
                   storybookDirs, selectedProject, found, tasks, shown, exit, configVars,
                   flowVars>>

\* const results = await Promise.all(...); displayResults(results) or the
\* preview boxes; process.exit(0)
DisplayStep ==
    /\ pc = "awaiting"
    /\ jobs # <<>>
    /\ Head(jobs).k = "mode"
    /\ ~\E i \in 1..Len(tasks) : tasks[i].st = "rejected"
    /\ LET values == [i \in 1..Len(tasks) |-> tasks[i].value]
       IN  /\ results' = values
           /\ IF mode = "analyze"
              THEN /\ report' = displayResults(values)
                   /\ shown' = shown \o <<TitleImportAnalysis>>
                                 \o IF displayResults(values).summary.present
                                    THEN <<TitleSummary>> ELSE <<>>
              ELSE /\ report' = [i \in 1..Len(values) |-> PreviewWarnings(values[i])]
                   /\ shown' = Append(shown, TitlePreviewAnalysis)
    /\ jobs' = Tail(jobs)
    /\ exit' = Some(0)
    /\ pc' = "exited"
    /\ UNCHANGED <<stmts, content, manifest, res, storyVars, mode, storybookDirs,
                   selectedProject, found, tasks, configVars, flowVars>>

\* the command line's entry: a rejected mode is printed and the process exits
\* with a non-zero status
TopLevelCatch ==
    /\ pc = "thrown"
    /\ shown' = Append(shown, TitleError)
    /\ exit' = Some(1)
    /\ pc' = "exited"
    /\ UNCHANGED <<stmts, content, manifest, res, report, storyVars, results, mode,
                   storybookDirs, selectedProject, found, tasks, jobs, configVars, flowVars>>

NextMode ==
    \/ FindStorybookDirs
    \/ FindStoriesDirectly
    \/ SelectProject
    \/ DiscoverFiles
    \/ StartAnalyses
    \/ RunTask
    \/ GlobAnswers
    \/ RunElement
    \/ PromiseAllRejects
    \/ DisplayStep
    \/ TopLevelCatch

SpecMode == InitMode /\ [][NextMode]_vars

ReportShown ==
    \E i \in 1..Len(shown) :
        shown[i] \in {TitleImportAnalysis, TitleSummary, TitlePreviewAnalysis}

SomeReadFails ==
    /\ found.present
    /\ \E i \in 1..Len(found.value) : ~found.value[i].readable

\* C16: when reading one discovered story or preview file fails, the failure
\* leaves the mode and the run is aborted: no report is displayed, not even
\* for the files that were read, and the process does not exit with status 0.
C16_ReadFailureAbortsTheRun ==
    (SomeReadFails /\ tasks # <<>>)
    => /\ report = Null
       /\ ~ReportShown
       /\ pc \in {"awaiting", "thrown", "exited"}
       /\ exit.present => exit.value # 0

C16_Witness ==
    /\ SomeReadFails
    /\ pc = "exited"
    /\ exit = Some(1)
    /\ \E i \in 1..Len(tasks) : tasks[i].st = "fulfilled"
    /\ \E i \in 1..Len(tasks) : tasks[i].st = "rejected"

NotFoundMessageShown ==
    /\ shown # <<>>
    /\ shown[Len(shown)] \in {TitleNoConfig, TitleNoStories, TitleNoPreview}

\* C17 as stated: without a Storybook configuration directory, or without a
\* discovered story or preview file, the run ends early with a message and a
\* non-zero status and without a report.
C17_NotFoundExitsNonZero ==
    ( /\ pc = "exited"
      /\ \/ storybookDirs = <<>>
         \/ found.present /\ found.value = <<>> )
    => /\ exit = Some(1)
       /\ NotFoundMessageShown \/ shown[Len(shown)] = TitleError
       /\ ~ReportShown

\* the searches of a mode that found nothing to analyze
NothingToAnalyze ==
    \/ mode = "preview" /\ storybookDirs = <<>> /\ pc # "start"
    \/ found.present /\ found.value = <<>>

\* C17, amended: in preview mode without a configuration directory or without
\* a preview file, and in analyze mode without a story file (with or without
\* a configuration directory), the run ends early with a message and a
\* non-zero status and without a report.
C17_NothingToAnalyzeExitsNonZero ==
    NothingToAnalyze
    => /\ pc = "exited"
       /\ exit = Some(1)
       /\ NotFoundMessageShown
       /\ ~ReportShown
       /\ tasks = <<>>
       /\ jobs = <<>>
       /\ report = Null

C17_Witness ==
    /\ mode = "analyze"
    /\ storybookDirs # <<>>
    /\ selectedProject = Some(DirPackage)
    /\ found = Some(<<>>)
    /\ exit = Some(1)
    /\ shown[Len(shown)] = TitleNoStories

----------------------------------------------------------------------------
(* init mode: updateChromaticConfig, the update of an existing config file *)

\* JSON values and JavaScript's undefined
Str(s) == [type |-> "string", s |-> s]
Bool(b) == [type |-> "boolean", b |-> b]
Arr(items) == [type |-> "array", items |-> items]
Undefined == [type |-> "undefined"]

\* a value in a boolean position: '', false and undefined are falsy, arrays
\* and objects truthy
Truthy(v) ==
    CASE v.type = "string" -> v.s # ""
      [] v.type = "boolean" -> v.b
      [] v.type = "array" -> TRUE
      [] v.type = "object" -> TRUE
      [] OTHER -> FALSE

\* a property read: existingConfig.key
Get(obj, k) == IF k \in DOMAIN obj THEN obj[k] ELSE Undefined

\* an object literal { ...obj, k1: v1, ... }: the listed properties win
Spread(obj, props) == props @@ obj

\* JSON.stringify, then the file's content parsed again: the properties whose
\* value is undefined are not written
JsonWritten(obj) == [k \in {j \in DOMAIN obj : obj[j].type # "undefined"} |-> obj[k]]

K_SCHEMA == "$schema"
K_PROJECT_ID == "projectId"
K_ONLY_CHANGED == "onlyChanged"
K_EXTERNALS == "externals"
K_BASE_DIR == "storybookBaseDir"
K_CONFIG_DIR == "storybookConfigDir"
K_BUILD_DIR == "storybookBuildDir"
K_ZIP == "zip"
K_BUILD_SCRIPT == "buildScriptName"

StorybookKeys == {K_BASE_DIR, K_CONFIG_DIR, K_BUILD_DIR}

SCHEMA_URL == Str("https://www.chromatic.com/config-file.schema.json")

\* the three directories taken from meta
StorybookProps(m) ==
    (K_BASE_DIR :> m.storybookBaseDir) @@ (K_CONFIG_DIR :> m.storybookConfigDir)
        @@ (K_BUILD_DIR :> m.storybookBuildDir)

\* the update that copies the listed properties without the spread
updateChromaticConfigWithoutSpread(existing, m) ==
    (K_SCHEMA :> (IF Truthy(Get(existing, K_SCHEMA)) THEN Get(existing, K_SCHEMA)
                  ELSE SCHEMA_URL))
    @@ (K_PROJECT_ID :> Get(existing, K_PROJECT_ID))
    @@ (K_ONLY_CHANGED :> Get(existing, K_ONLY_CHANGED))
    @@ (K_EXTERNALS :> Get(existing, K_EXTERNALS))
    @@ StorybookProps(m)

\* updateChromaticConfig of part_004, lines 145-158: updatedConfig
updateChromaticConfig(existing, m) ==
    Spread(existing,
           (K_SCHEMA :> (IF Truthy(Get(existing, K_SCHEMA)) THEN Get(existing, K_SCHEMA)
                         ELSE SCHEMA_URL))
           @@ (K_PROJECT_ID :> Get(existing, K_PROJECT_ID))
           @@ (K_ONLY_CHANGED :> Get(existing, K_ONLY_CHANGED))
           @@ (K_EXTERNALS :> Get(existing, K_EXTERNALS))
           @@ StorybookProps(m))

\* updateChromaticConfig of part_003, lines 147-165: the entries of the
\* existing config without the three directories, the directories of meta,
\* and the schema when the config has none
updateChromaticConfigEntries(existing, m) ==
    LET kept == [k \in DOMAIN existing \ StorybookKeys |-> existing[k]]
        updated == Spread(kept, StorybookProps(m))
    IN  IF ~Truthy(Get(updated, K_SCHEMA))
        THEN (K_SCHEMA :> SCHEMA_URL) @@ updated
        ELSE updated

\* the properties of a config: those of the record whose value is defined
Defined(rec) == JsonWritten(rec)

ExistingConfigs ==
    { Defined((K_SCHEMA :> a) @@ (K_PROJECT_ID :> b) @@ (K_ONLY_CHANGED :> c)
              @@ (K_EXTERNALS :> d) @@ (K_BASE_DIR :> e) @@ (K_CONFIG_DIR :> f)
              @@ (K_BUILD_DIR :> g) @@ (K_ZIP :> h) @@ (K_BUILD_SCRIPT :> i)) :
        a \in {Undefined, Str(""), Str("https://example.com/config.schema.json")},
        b \in {Undefined, Str("Project:abc")},
        c \in {Undefined, Bool(TRUE), Bool(FALSE)},
        d \in {Undefined, Arr(<<"public/**">>)},
        e \in {Undefined, Str("old")},
        f \in {Undefined, Str("old/.storybook")},
        g \in {Undefined, Str("old/storybook-static")},
        h \in {Undefined, Bool(TRUE)},
        i \in {Undefined, Str("build-storybook")} }

Metas ==
    { [storybookBaseDir |-> Str("."), storybookConfigDir |-> Str(".storybook"),
       storybookBuildDir |-> Str("storybook-static")],
      [storybookBaseDir |-> Str("old"), storybookConfigDir |-> Str("old/.storybook"),
       storybookBuildDir |-> Str("old/storybook-static")] }

InitUpdate ==
    /\ stmts = <<>>
    /\ content = <<>>
    /\ manifest = NoManifest
    /\ pc = "start"
    /\ res = Null
    /\ report = Null
    /\ filePath = <<>>
    /\ files = <<>>
    /\ pending = <<>>
    /\ queries = <<>>
    /\ imports = Null
    /\ componentFile = None
    /\ ModeIdle
    /\ FlowIdle
    /\ variant \in {"part_004", "part_003"}
    /\ existingConfig \in ExistingConfigs
    /\ meta \in Metas
    /\ answers = <<>>
    /\ written = None

\* updateChromaticConfig of part_004: the config is built and written
UpdateChromaticConfigStep ==
    /\ pc = "start"
    /\ variant = "part_004"
    /\ written' = Some(JsonWritten(updateChromaticConfig(existingConfig, meta)))
    /\ res' = updateChromaticConfig(existingConfig, meta)
    /\ pc' = "written"
    /\ UNCHANGED <<stmts, content, manifest, report, storyVars, modeVars, variant,
                   existingConfig, meta, answers, flowVars>>

\* updateChromaticConfig of part_003: the config is built and written
UpdateChromaticConfigEntriesStep ==
    /\ pc = "start"
    /\ variant = "part_003"
    /\ written' = Some(JsonWritten(updateChromaticConfigEntries(existingConfig, meta)))
    /\ res' = updateChromaticConfigEntries(existingConfig, meta)
    /\ pc' = "written"
    /\ UNCHANGED <<stmts, content, manifest, report, storyVars, modeVars, variant,
                   existingConfig, meta, answers, flowVars>>

NextUpdate == UpdateChromaticConfigStep \/ UpdateChromaticConfigEntriesStep

SpecUpdate == InitUpdate /\ [][NextUpdate]_vars

\* C18 as stated: every property of the existing config is in the written
\* config, and every property other than the three directories (and $schema
\* when it was missing) has its existing value.
C18_ExistingPropertiesKept ==
    pc = "written"
    => \A k \in DOMAIN existingConfig :
          /\ k \in DOMAIN written.value
          /\ k \notin StorybookKeys => written.value[k] = existingConfig[k]

\* C18, amended: every property of the existing config is in the written
\* config, and every property other than the three directories and a $schema
\* that was missing or empty has its existing value.
C18_ExistingPropertiesKeptButEmptySchema ==
    pc = "written"
    => \A k \in DOMAIN existingConfig :
          /\ k \in DOMAIN written.value
          /\ ( /\ k \notin StorybookKeys
               /\ ~(k = K_SCHEMA /\ ~Truthy(existingConfig[k])) )
             => written.value[k] = existingConfig[k]

C18_Witness ==
    /\ pc = "written"
    /\ {K_ZIP, K_BUILD_SCRIPT, K_EXTERNALS, K_ONLY_CHANGED, K_BASE_DIR, K_SCHEMA}
           \subseteq DOMAIN existingConfig
    /\ existingConfig[K_ONLY_CHANGED] = Bool(FALSE)
    /\ existingConfig[K_SCHEMA] = Str("")
    /\ written.value[K_ZIP] = Bool(TRUE)
    /\ written.value[K_ONLY_CHANGED] = Bool(FALSE)
    /\ written.value[K_BASE_DIR] = Str(".")
    /\ written.value[K_SCHEMA] = SCHEMA_URL

\* C19: when the existing config lacks onlyChanged or $schema, the written
\* config has both an onlyChanged setting and $schema.
C19_OnlyChangedAndSchemaAdded ==
    ( /\ pc = "written"
      /\ \/ K_ONLY_CHANGED \notin DOMAIN existingConfig
         \/ K_SCHEMA \notin DOMAIN existingConfig )
    => /\ K_ONLY_CHANGED \in DOMAIN written.value
       /\ K_SCHEMA \in DOMAIN written.value

----------------------------------------------------------------------------
(* init mode: updateChromaticConfig of index.ts, which also asks about the  *)
(* static assets and rewrites externals                                     *)

MaxAssets == 2
MaxExternals == 2

AssetLogoSvg == <<"p", "u", "b", "l", "i", "c", "/", "l", "o", "g", "o", ".", "s", "v", "g">>
AssetImgPng == <<"p", "u", "b", "l", "i", "c", "/", "i", "m", "g", "/", "a", ".", "p", "n", "g">>
AssetRootPng == <<"l", "o", "g", "o", ".", "p", "n", "g">>

AssetConstructorPng == <<"c", "o", "n", "s", "t", "r", "u", "c", "t", "o", "r", "/", "a", ".", "p", "n", "g">>

ExternalPublicPng == <<"p", "u", "b", "l", "i", "c", "/", "*", "*", "/", "*", ".", "p", "n", "g">>
ExternalPublicSvg == <<"p", "u", "b", "l", "i", "c", "/", "*", "*", "/", "*", ".", "s", "v", "g">>
ExternalLogoSvg == <<"p", "u", "b", "l", "i", "c", "/", "l", "o", "g", "o", ".", "s", "v", "g">>
ExternalSrcCss == <<"s", "r", "c", "/", "*", "*", "/", "*", ".", "c", "s", "s">>

GLOB_ANY == <<"/", "*", "*", "/", "*">>

StartsWith(s, prefix) ==
    Len(prefix) <= Len(s) /\ SubSeq(s, 1, Len(prefix)) = prefix

EndsWith(s, suffix) ==
    Len(suffix) <= Len(s) /\ SubSeq(s, Len(s) - Len(suffix) + 1, Len(s)) = suffix

\* the sequence without its repeated entries, first occurrences kept
RECURSIVE Distinct(_)
Distinct(s) ==
    IF s = <<>> THEN <<>>
    ELSE LET r == Distinct(SubSeq(s, 1, Len(s) - 1))
             x == s[Len(s)]
         IN  IF \E i \in 1..Len(r) : r[i] = x THEN r ELSE Append(r, x)

RECURSIVE Flatten(_)
Flatten(ss) == IF ss = <<>> THEN <<>> ELSE Head(ss) \o Flatten(Tail(ss))

\* the sequences over S of length at most n without repeated entries
DistinctSeqsUpTo(S, n) == {s \in SeqsUpTo(S, n) : Distinct(s) = s}

\* the entries of s at the indexes of I, in the order of s
Pick(s, I) ==
    LET J == I \cap (1..Len(s))
    IN  [j \in 1..Cardinality(J) |->
            s[CHOOSE i \in J : Cardinality({k \in J : k <= i}) = j]]

\* a numeral is below another
NumeralLess(a, b) ==
    \/ Len(a) < Len(b)
    \/ /\ Len(a) = Len(b)
       /\ \E i \in 1..Len(a) : /\ DigitValue(a[i]) < DigitValue(b[i])
                                /\ \A j \in 1..(i - 1) : a[j] = b[j]

\* the largest array index, 2^32 - 2
MAX_ARRAY_INDEX == <<"4", "2", "9", "4", "9", "6", "7", "2", "9", "4">>

\* a property name that is an array index: the numeral of an integer up to
\* 2^32 - 2, written without a leading zero
IsArrayIndex(key) ==
    /\ key # <<>>
    /\ \A i \in 1..Len(key) : key[i] \in Digits
    /\ Len(key) = 1 \/ key[1] # "0"
    /\ ~NumeralLess(MAX_ARRAY_INDEX, key)

\* Object.keys, Object.entries: the own property names of an object whose
\* properties were added in the order of added: the array indexes in
\* ascending order, then the other names in the order they were added
OwnKeys(added) ==
    LET indexes == {added[i] : i \in {j \in 1..Len(added) : IsArrayIndex(added[j])}}
    IN  [n \in 1..Cardinality(indexes) |->
            CHOOSE k \in indexes :
                Cardinality({m \in indexes : NumeralLess(m, k)}) = n - 1]
        \o SelectSeq(added, LAMBDA key : ~IsArrayIndex(key))

\* the property names an object literal inherits from Object.prototype
INHERITED_NAMES ==
    { <<"c", "o", "n", "s", "t", "r", "u", "c", "t", "o", "r">>,
      <<"_", "_", "p", "r", "o", "t", "o", "_", "_">>,
      <<"t", "o", "S", "t", "r", "i", "n", "g">>,
      <<"v", "a", "l", "u", "e", "O", "f">>,
      <<"t", "o", "L", "o", "c", "a", "l", "e", "S", "t", "r", "i", "n", "g">>,
      <<"h", "a", "s", "O", "w", "n", "P", "r", "o", "p", "e", "r", "t", "y">>,
      <<"i", "s", "P", "r", "o", "t", "o", "t", "y", "p", "e", "O", "f">>,
      <<"p", "r", "o", "p", "e", "r", "t", "y", "I", "s", "E", "n", "u", "m", "e", "r", "a", "b", "l", "e">>,
      <<"_", "_", "d", "e", "f", "i", "n", "e", "G", "e", "t", "t", "e", "r", "_", "_">>,
      <<"_", "_", "d", "e", "f", "i", "n", "e", "S", "e", "t", "t", "e", "r", "_", "_">>,
      <<"_", "_", "l", "o", "o", "k", "u", "p", "G", "e", "t", "t", "e", "r", "_", "_">>,
      <<"_", "_", "l", "o", "o", "k", "u", "p", "S", "e", "t", "t", "e", "r", "_", "_">> }

\* the grouping reduce, if (!acc[key]) acc[key] = []; acc[key].push(asset):
\* under an inherited name acc[key] is there and has no push, TypeError
GroupingThrows(keys) == \E i \in 1..Len(keys) : keys[i] \in INHERITED_NAMES

\* Object.entries(filesByDir): the directories of the assets
AssetDirs(assets) ==
    OwnKeys(Distinct([i \in 1..Len(assets) |-> PathDirname(assets[i])]))

\* filesByDir[dir]
FilesOfDir(assets, dir) == SelectSeq(assets, LAMBDA a : PathDirname(a) = dir)

\* lines 1548-1611: selectedAssets
SelectedAssets(m, a) ==
    IF a.selectionMode = "all" THEN m.staticAssets
    ELSE IF a.selectionMode = "individual"
    THEN IF a.showPaths
         THEN LET dirs == Pick(AssetDirs(m.staticAssets), a.chosen)
              IN  Flatten([i \in 1..Len(dirs) |-> FilesOfDir(m.staticAssets, dirs[i])])
         ELSE Pick(m.staticAssets, a.chosen)
    ELSE <<>>

\* `${dir}/**/*${ext}`
AssetPattern(asset) == PathDirname(asset) \o GLOB_ANY \o PathExtname(asset)

\* lines 1613-1634: newExternals
NewExternals(selectedAssets, useGlob) ==
    IF useGlob
    THEN Distinct([i \in 1..Len(selectedAssets) |-> AssetPattern(selectedAssets[i])])
    ELSE selectedAssets

\* lines 1636-1649: preservedExternals
PreservedExternals(existingExternals, newExternals, useGlob) ==
    SelectSeq(existingExternals,
              LAMBDA existing :
                  IF useGlob
                  THEN ~\E i \in 1..Len(newExternals) :
                            StartsWith(existing, PathDirname(newExternals[i]))
                  ELSE ~\E i \in 1..Len(newExternals) : newExternals[i] = existing)

\* existingConfig.externals || []
ExistingExternals(existing) ==
    IF Truthy(Get(existing, K_EXTERNALS)) THEN existing[K_EXTERNALS].items ELSE <<>>

\* lines 1513-1696: updatedConfig, and what the Externals Update box lists
updateChromaticConfigPrompted(existing, m, a) ==
    LET base == Spread(existing, StorybookProps(m))
        selectedAssets == SelectedAssets(m, a)
        prompted == Len(m.staticAssets) > 0 /\ a.updateExternals /\ Len(selectedAssets) > 0
        newExternals == NewExternals(selectedAssets, a.useGlob)
        existingExternals == ExistingExternals(existing)
        preservedExternals == PreservedExternals(existingExternals, newExternals, a.useGlob)
    IN  IF ~prompted THEN [config |-> base, box |-> Null]
        ELSE [config |-> Spread(base, K_EXTERNALS :>
                            Arr(IF a.confirmExternals
                                THEN preservedExternals \o newExternals
                                ELSE existingExternals)),
              box |-> [kind |-> "externals", added |-> newExternals,
                       preserved |-> preservedExternals]]

----------------------------------------------------------------------------
(* The Chromatic script of package.json: updatePackageJsonScript           *)
(* (package-json.ts, and the earlier one kept in project-detection.ts)     *)

MaxScripts == 2

CONFIG_FILE == <<"-", "-", "c", "o", "n", "f", "i", "g", "-", "f", "i", "l", "e">>
CHROMATIC == <<"c", "h", "r", "o", "m", "a", "t", "i", "c">>

\* `--config-file '${relativeConfigPath}'`
ConfigFlag(rel) == CONFIG_FILE \o <<" ", "'">> \o rel \o <<"'">>

\* /--config-file\s+'([^']+)'/ tried at p
QuotedFlagAt(script, p) ==
    IF ~IsLit(script, p, CONFIG_FILE) THEN NoMatch
    ELSE LET a == p + Len(CONFIG_FILE)
             b == RunEnd(script, a, WS)
         IN  IF b = a \/ b > Len(script) \/ script[b] # "'" THEN NoMatch
             ELSE LET c == RunEndNot(script, b + 1, {"'"})
                  IN  IF c = b + 1 \/ c > Len(script) THEN NoMatch
                      ELSE [ok |-> TRUE, cap |-> SubSeq(script, b + 1, c - 1), at |-> p,
                            capAt |-> b + 1, end |-> c + 1]

\* script.match(/--config-file\s+'([^']+)'/)?.[1]
CurrentConfigPathQuoted(script) ==
    LET P == {p \in 1..Len(script) : QuotedFlagAt(script, p).ok}
    IN  IF P = {} THEN None ELSE Some(QuotedFlagAt(script, SetMin(P)).cap)

\* /--config-file\s+['"]?([^'"\s]+)['"]?/ tried at p: the white space and the
\* optional quote are taken greedily; giving either back leaves the capture
\* on a quote or a white space, so a failure here is a failure at p
FlagAt(script, p) ==
    IF ~IsLit(script, p, CONFIG_FILE) THEN NoMatch
    ELSE LET a == p + Len(CONFIG_FILE)
             b == RunEnd(script, a, WS)
             q == IF b <= Len(script) /\ script[b] \in Quotes THEN b + 1 ELSE b
             c == RunEndNot(script, q, Quotes \cup WS)
         IN  IF b = a \/ c = q THEN NoMatch
             ELSE [ok |-> TRUE, cap |-> SubSeq(script, q, c - 1), at |-> p, capAt |-> q,
                   end |-> IF c <= Len(script) /\ script[c] \in Quotes THEN c + 1 ELSE c]

\* the first match of /--config-file\s+['"]?([^'"\s]+)['"]?/ in the script
FlagMatch(script) ==
    LET P == {p \in 1..Len(script) : FlagAt(script, p).ok}
    IN  IF P = {} THEN NoMatch ELSE FlagAt(script, SetMin(P))

\* script.match(/--config-file\s+['"]?([^'"\s]+)['"]?/)?.[1]
CaptureOf(m) == IF m.ok THEN Some(m.cap) ELSE None

CurrentConfigPath(script) == CaptureOf(FlagMatch(script))

\* GetSubstitution for an expression without groups: in the replacement text
\* $$ stands for a dollar sign, $& for the matched text, $` for the text
\* before the match and $' for the text after it; any other $ stands for
\* itself
RECURSIVE GetSubstitution(_, _, _, _)
GetSubstitution(matched, before, after, replacement) ==
    IF replacement = <<>> THEN <<>>
    ELSE IF Head(replacement) # "$" \/ Len(replacement) = 1
    THEN <<Head(replacement)>>
         \o GetSubstitution(matched, before, after, Tail(replacement))
    ELSE LET c == replacement[2]
             rest == SubSeq(replacement, 3, Len(replacement))
         IN  IF c = "$" THEN <<"$">> \o GetSubstitution(matched, before, after, rest)
             ELSE IF c = "&" THEN matched \o GetSubstitution(matched, before, after, rest)
             ELSE IF c = "U+0060"
             THEN before \o GetSubstitution(matched, before, after, rest)
             ELSE IF c = "'" THEN after \o GetSubstitution(matched, before, after, rest)
             ELSE <<"$">> \o GetSubstitution(matched, before, after, Tail(replacement))

\* script.replace(/--config-file\s+['"]?[^'"\s]+['"]?/, configFlag): the
\* first match is replaced, and configFlag is read as a replacement text
Substituted(matched, before, after, replacement) ==
    before \o GetSubstitution(matched, before, after, replacement) \o after

ReplaceMatch(script, m, replacement) ==
    IF ~m.ok THEN script
    ELSE Substituted(SubSeq(script, m.at, m.end - 1), SubSeq(script, 1, m.at - 1),
                     SubSeq(script, m.end, Len(script)), replacement)

ReplaceConfigFlag(script, flag) == ReplaceMatch(script, FlagMatch(script), flag)

\* name.toLowerCase().includes('chromatic')
IsChromaticScript(e) == Includes(ToLowerCase(e.name), CHROMATIC)

\* typeof script === 'string'
IsString(v) == v.type = "string"

\* script.includes('--config-file')
HasConfigFlag(script) == Includes(script, CONFIG_FILE)

PROTO == <<"_", "_", "p", "r", "o", "t", "o", "_", "_">>

\* packageJson.scripts[name] = value: a property that is there keeps its
\* place, a new one is added, and the properties are read in the order of
\* OwnKeys; the name __proto__ of no property of the object is that of the
\* accessor it inherits, which a string leaves without effect
SetScript(scripts, name, value) ==
    IF \E i \in 1..Len(scripts) : scripts[i].name = name
    THEN [i \in 1..Len(scripts) |->
            IF scripts[i].name = name THEN [name |-> name, script |-> value]
            ELSE scripts[i]]
    ELSE IF name = PROTO THEN scripts
    ELSE LET added == Append(scripts, [name |-> name, script |-> value])
             keys == OwnKeys([i \in 1..Len(added) |-> added[i].name])
         IN  [i \in 1..Len(keys) |->
                 added[CHOOSE j \in 1..Len(added) : added[j].name = keys[i]]]

\* the first loop over chromaticScripts: a script without the option gets it
\* appended
WithFlagAppended(scripts, flag) ==
    [i \in 1..Len(scripts) |->
        IF IsChromaticScript(scripts[i]) /\ IsString(scripts[i].script)
           /\ ~HasConfigFlag(scripts[i].script.s)
        THEN [name |-> scripts[i].name,
              script |-> Str(scripts[i].script.s \o <<" ">> \o flag)]
        ELSE scripts[i]]

\* the chromatic scripts that already have the option
Flagged(scripts) ==
    SelectSeq(scripts, LAMBDA e : IsChromaticScript(e) /\ IsString(e.script)
                                      /\ HasConfigFlag(e.script.s))

\* the Script Details box of a script that has the option
ScriptDetails(e, current, rel) ==
    [title |-> "Script Details", name |-> e.name, match |-> current = Some(rel)]

\* the second loop over chromaticScripts: the option of a script whose path
\* differs is replaced
WithFlagReplaced(scripts, original, rel) ==
    [i \in 1..Len(scripts) |->
        IF IsChromaticScript(original[i]) /\ IsString(original[i].script)
           /\ HasConfigFlag(original[i].script.s)
           /\ CurrentConfigPath(original[i].script.s) # Some(rel)
        THEN [name |-> original[i].name,
              script |-> Str(ReplaceConfigFlag(original[i].script.s, ConfigFlag(rel)))]
        ELSE scripts[i]]

\* no chromatic script: the user is asked whether to add one, and its name
AddScript(scripts, rel, a) ==
    IF a.addScript
    THEN [returned |-> Some(SetScript(scripts, a.scriptName,
                                      Str(CHROMATIC \o <<" ">> \o ConfigFlag(rel)))),
          shown |-> <<>>, asked |-> <<"addScript", "scriptName">>, raises |-> "none"]
    ELSE [returned |-> None, shown |-> <<>>, asked |-> <<"addScript">>,
          raises |-> "none"]

NoPackageJson ==
    [returned |-> None, shown |-> <<[title |-> "Warning"]>>, asked |-> <<>>,
     raises |-> "none"]

\* a package.json whose text JSON.parse rejects
Unparsable == [present |-> TRUE, value |-> <<>>, error |-> "SyntaxError"]

\* a directory where the file is looked for: fs.existsSync finds it and
\* fs.readFileSync cannot read it
ADirectory == [present |-> TRUE, value |-> <<>>, error |-> "EISDIR"]

\* JSON.parse(fs.readFileSync(packageJsonPath, 'utf-8')) throws
JsonParseThrows(pj) == "error" \in DOMAIN pj

ParseFailed(pj) ==
    [returned |-> None, shown |-> <<>>, asked |-> <<>>, raises |-> pj.error]

\* path.relative(meta.storybookBaseDir, configPath)
RelativeConfigPath(m, path) == PathRelative(m.storybookBaseDir, path)

ScriptsFound == [title |-> "Package.json Scripts"]

\* lines 126-141: the Script Details boxes; nothing is asked or replaced
DisplayedScripts(scripts, rel, a, added, flagged) ==
    [returned |-> IF added # scripts THEN Some(added) ELSE None,
     shown |-> <<ScriptsFound>> \o
               [i \in 1..Len(flagged) |->
                   ScriptDetails(flagged[i],
                       CurrentConfigPathQuoted(flagged[i].script.s), rel)],
     asked |-> <<>>, raises |-> "none"]

DisplayScripts(pj, rel, a) ==
    IF ~pj.present THEN NoPackageJson
    ELSE IF JsonParseThrows(pj) THEN ParseFailed(pj)
    ELSE IF SelectSeq(pj.value, IsChromaticScript) = <<>>
    THEN AddScript(pj.value, rel, a)
    ELSE DisplayedScripts(pj.value, rel, a, WithFlagAppended(pj.value, ConfigFlag(rel)),
                          Flagged(pj.value))

\* updatePackageJsonScript of project-detection.ts, lines 91-180
updatePackageJsonScriptDisplay(pj, path, m, a) ==
    DisplayScripts(pj, RelativeConfigPath(m, path), a)

\* lines 78-106: the scripts after the prompt updateExistingScripts
UpdatedScripts(scripts, rel, a, added, flagged, needsUpdate) ==
    [returned |-> IF added # scripts \/ (needsUpdate /\ a.updateExistingScripts)
                  THEN Some(IF needsUpdate /\ a.updateExistingScripts
                            THEN WithFlagReplaced(added, scripts, rel)
                            ELSE added)
                  ELSE None,
     shown |-> <<ScriptsFound>> \o
               [i \in 1..Len(flagged) |->
                   ScriptDetails(flagged[i],
                       CurrentConfigPath(flagged[i].script.s), rel)],
     asked |-> IF needsUpdate THEN <<"updateExistingScripts">> ELSE <<>>,
     raises |-> "none"]

\* lines 36-76: the option appended, and needsUpdate
CheckedScripts(scripts, rel, a, added, flagged) ==
    UpdatedScripts(scripts, rel, a, added, flagged,
                   \E i \in 1..Len(flagged) :
                       CurrentConfigPath(flagged[i].script.s) # Some(rel))

UpdateScripts(pj, rel, a) ==
    IF ~pj.present THEN NoPackageJson
    ELSE IF JsonParseThrows(pj) THEN ParseFailed(pj)
    ELSE IF SelectSeq(pj.value, IsChromaticScript) = <<>>
    THEN AddScript(pj.value, rel, a)
    ELSE CheckedScripts(pj.value, rel, a, WithFlagAppended(pj.value, ConfigFlag(rel)),
                        Flagged(pj.value))

\* updatePackageJsonScript of package-json.ts, lines 12-148
updatePackageJsonScript(pj, path, m, a) ==
    UpdateScripts(pj, RelativeConfigPath(m, path), a)

RelBase == <<"c", "h", "r", "o", "m", "a", "t", "i", "c", ".", "c", "o", "n", "f", "i",
             "g", ".", "j", "s", "o", "n">>
RelConfigs == <<"c", "o", "n", "f", "i", "g", "s", "/", "c", "h", "r", "o", "m", "a",
                "t", "i", "c", ".", "c", "o", "n", "f", "i", "g", ".", "j", "s", "o",
                "n">>
RelSpaced == <<"m", "y", " ", "c", "o", "n", "f", "i", "g", "s", "/", "c", "h", "r",
               "o", "m", "a", "t", "i", "c", ".", "c", "o", "n", "f", "i", "g", ".",
               "j", "s", "o", "n">>

\* a path with $$ in it
RelDollar == <<"c", "$", "$", ".", "j", "s", "o", "n">>

NameChromatic == <<"c", "h", "r", "o", "m", "a", "t", "i", "c">>
NameCi == <<"C", "h", "r", "o", "m", "a", "t", "i", "c", ":", "c", "i">>
NameBuild == <<"b", "u", "i", "l", "d">>

OptExitZero == <<" ", "-", "-", "e", "x", "i", "t", "-", "z", "e", "r", "o", "-", "o",
                 "n", "-", "c", "h", "a", "n", "g", "e", "s">>

\* a script text with the path of its --config-file option, and what stands
\* before and after the option
ScriptWith(before, option, path, after) ==
    [text |-> before \o option \o after, path |-> path, before |-> before,
     after |-> after]

ScriptTexts ==
    { ScriptWith(CHROMATIC, <<>>, None, <<>>),
      ScriptWith(CHROMATIC, <<>>, None, OptExitZero),
      ScriptWith(CHROMATIC \o <<" ">>, ConfigFlag(RelBase), Some(RelBase), <<>>),
      ScriptWith(CHROMATIC \o <<" ">>, ConfigFlag(RelBase), Some(RelBase), OptExitZero),
      ScriptWith(CHROMATIC \o <<" ">>, CONFIG_FILE \o <<" ">> \o RelConfigs,
                 Some(RelConfigs), OptExitZero),
      ScriptWith(CHROMATIC \o <<" ">>, CONFIG_FILE \o <<" ",
      "\"">> \o RelBase \o <<"\"">>,
                 Some(RelBase), <<>>),
      ScriptWith(CHROMATIC \o <<" ">>, CONFIG_FILE \o <<"=">> \o RelBase,
                 Some(RelBase), <<>>),
      ScriptWith(CHROMATIC \o <<" ">>, ConfigFlag(RelSpaced), Some(RelSpaced),
                 OptExitZero) }

ScriptEntries ==
    { [name |-> n, script |-> v] :
        n \in {NameChromatic, NameCi},
        v \in {Str(t.text) : t \in ScriptTexts} \cup {Bool(TRUE)} }
    \cup { [name |-> NameBuild, script |-> Str(<<"v", "i", "t", "e", " ", "b", "u",
      "i", "l", "d">>)] }

\* the scripts objects: no name twice
ScriptObjects ==
    { s \in SeqsUpTo(ScriptEntries, MaxScripts) :
        \A i, j \in 1..Len(s) : s[i].name = s[j].name => i = j }

\* the answers: a name is asked for only after addScript was agreed to
ScriptAnswers ==
    [updateExistingScripts : BOOLEAN, addScript : {FALSE}, scriptName : {NameChromatic}]
    \cup [updateExistingScripts : BOOLEAN, addScript : {TRUE},
          scriptName : {NameChromatic, <<"v", "i", "s", "u", "a", "l">>, <<"1">>, PROTO}]

\* the base directories and the config files saved in them
SavedConfigs ==
    { [base |-> <<".">>, rel |-> RelBase],
      [base |-> <<".">>, rel |-> RelConfigs],
      [base |-> <<".">>, rel |-> RelSpaced],
      [base |-> <<".", "/", "u", "i">>, rel |-> RelBase],
      [base |-> <<".", "/", "u", "i">>, rel |-> RelDollar] }

InitScript ==
    /\ stmts = <<>>
    /\ content = <<>>
    /\ manifest = NoManifest
    /\ pc = "start"
    /\ res = Null
    /\ report = Null
    /\ filePath = <<>>
    /\ files = <<>>
    /\ pending = <<>>
    /\ queries = <<>>
    /\ imports = Null
    /\ componentFile = None
    /\ results = <<>>
    /\ mode = "init"
    /\ storybookDirs = <<>>
    /\ selectedProject = None
    /\ found = None
    /\ tasks = <<>>
    /\ jobs = <<>>
    /\ shown = <<>>
    /\ exit = None
    /\ variant \in {"package-json.ts", "project-detection.ts"}
    /\ existingConfig = <<>>
    /\ \E c \in SavedConfigs :
          /\ meta = [storybookBaseDir |-> c.base]
          /\ configPath = PathJoin(c.base, c.rel)
    /\ answers \in ScriptAnswers
    /\ written = None
    /\ packageJson \in {None, Unparsable, ADirectory} \cup {Some(s) : s \in ScriptObjects}
    /\ asked = <<>>
    /\ returned = None
    /\ configured = <<>>

\* the run of the function on the package.json of the project under the
\* answers the user is going to give
ScriptRun ==
    IF variant = "package-json.ts"
    THEN updatePackageJsonScript(packageJson, configPath, meta, answers)
    ELSE updatePackageJsonScriptDisplay(packageJson, configPath, meta, answers)

\* the function returns or throws as its run r ends
ScriptEnds(r) ==
    /\ returned' = r.returned
    /\ pc' = IF r.raises = "none" THEN "returned" ELSE "thrown"
    /\ asked' = asked

\* await prompt: the prompt is put to the user and the function waits for the
\* answer
ScriptAwaits(name) ==
    /\ asked' = Append(asked, name)
    /\ pc' = name
    /\ returned' = returned

\* the function runs from its start to its first await, or to its return
\* where it asks nothing: the boxes are shown on the way
ScriptStarts(r) ==
    /\ shown' = r.shown
    /\ IF r.asked = <<>> THEN ScriptEnds(r) ELSE ScriptAwaits(r.asked[1])

\* updatePackageJsonScript of package-json.ts, lines 12-81 or 12-120: up to
\* the prompt updateExistingScripts or addScript
UpdatePackageJsonScriptStep ==
    /\ pc = "start"
    /\ variant = "package-json.ts"
    /\ ScriptStarts(ScriptRun)
    /\ UNCHANGED <<stmts, content, manifest, res, report, storyVars, results, mode,
                   storybookDirs, selectedProject, found, tasks, jobs, exit, configVars,
                   packageJson, configPath, configured>>

\* updatePackageJsonScript of project-detection.ts, lines 91-152: to its
\* return where a chromatic script is there, up to the prompt addScript where
\* none is
UpdatePackageJsonScriptDisplayStep ==
    /\ pc = "start"
    /\ variant = "project-detection.ts"
    /\ ScriptStarts(ScriptRun)
    /\ UNCHANGED <<stmts, content, manifest, res, report, storyVars, results, mode,
                   storybookDirs, selectedProject, found, tasks, jobs, exit, configVars,
                   packageJson, configPath, configured>>

\* package-json.ts lines 81-115: the answer to updateExistingScripts arrives,
\* the options are replaced where it is yes, and the function returns
UpdateExistingScriptsAnswered ==
    /\ pc = "updateExistingScripts"
    /\ ScriptEnds(ScriptRun)
    /\ UNCHANGED <<stmts, content, manifest, res, report, storyVars, results, mode,
                   storybookDirs, selectedProject, found, tasks, jobs, shown, exit,
                   configVars, packageJson, configPath, configured>>

\* package-json.ts lines 120-128, project-detection.ts lines 152-160: the
\* answer to addScript arrives; on yes the name is asked for, on no the
\* function returns null
AddScriptAnswered ==
    /\ pc = "addScript"
    /\ IF answers.addScript THEN ScriptAwaits("scriptName") ELSE ScriptEnds(ScriptRun)
    /\ UNCHANGED <<stmts, content, manifest, res, report, storyVars, results, mode,
                   storybookDirs, selectedProject, found, tasks, jobs, shown, exit,
                   configVars, packageJson, configPath, configured>>

\* package-json.ts lines 128-144, project-detection.ts lines 160-176: the
\* name arrives, the script is set and the function returns
ScriptNameAnswered ==
    /\ pc = "scriptName"
    /\ ScriptEnds(ScriptRun)
    /\ UNCHANGED <<stmts, content, manifest, res, report, storyVars, results, mode,
                   storybookDirs, selectedProject, found, tasks, jobs, shown, exit,
                   configVars, packageJson, configPath, configured>>

NextScript ==
    \/ UpdatePackageJsonScriptStep
    \/ UpdatePackageJsonScriptDisplayStep
    \/ UpdateExistingScriptsAnswered
    \/ AddScriptAnswered
    \/ ScriptNameAnswered

SpecScript == InitScript /\ [][NextScript]_vars

\* the chromatic scripts of package.json whose value is a string
StringScripts ==
    IF packageJson.present
    THEN {i \in 1..Len(packageJson.value) :
            IsChromaticScript(packageJson.value[i]) /\ IsString(packageJson.value[i].script)}
    ELSE {}

\* how the i-th script was written: its option's path, and the rest
ScriptAsWritten(i) == CHOOSE t \in ScriptTexts : t.text = packageJson.value[i].script.s

\* the i-th script after the run
ReturnedScript(i) ==
    IF returned.present THEN returned.value[i].script ELSE packageJson.value[i].script

ScriptChanged(i) == ReturnedScript(i) # packageJson.value[i].script

MismatchShown(i) ==
    \E k \in 1..Len(shown) :
        shown[k] = [title |-> "Script Details", name |-> packageJson.value[i].name,
                    match |-> FALSE]

UpdateAsked == \E k \in 1..Len(asked) : asked[k] = "updateExistingScripts"

\* the saved config file's path, as the script's option gives it
SavedPath == RelativeConfigPath(meta, configPath)

\* the script with its option replaced and everything else as it was
OnlyOptionReplaced(i) ==
    Str(ScriptAsWritten(i).before \o ConfigFlag(SavedPath) \o ScriptAsWritten(i).after)

\* C21 as stated: a script whose --config-file path differs from the saved
\* config's path has the mismatch displayed and the user prompted; it is
\* changed only when the user confirmed, and then only its option is
\* replaced; a script whose path matches is not changed.
C21_MismatchPromptedAndOnlyOptionReplaced ==
    pc = "returned" =>
        \A i \in StringScripts :
            ScriptAsWritten(i).path.present =>
                LET differs == ScriptAsWritten(i).path # Some(SavedPath)
                IN  /\ differs => MismatchShown(i) /\ UpdateAsked
                    /\ ScriptChanged(i) =>
                          /\ differs
                          /\ answers.updateExistingScripts
                          /\ ReturnedScript(i) = OnlyOptionReplaced(i)
                    /\ ~differs => ~ScriptChanged(i)

\* C22: a chromatic script without the --config-file option makes the tool
\* ask the user, and the script is modified in the returned content only
\* after the user agreed.
C22_FlagAddedOnlyAfterAgreement ==
    pc = "returned" =>
        \A i \in StringScripts :
            ~ScriptAsWritten(i).path.present =>
                /\ asked # <<>>
                /\ ScriptChanged(i) =>
                      answers.updateExistingScripts \/ answers.addScript

----------------------------------------------------------------------------
(* The order of the candidate patterns of the associator                   *)

\* <storyDir>/<importPath>.{js,jsx,ts,tsx} and the files on disk it stands for
FirstPattern(importPath) ==
    PathJoin(PathDirname(filePath), importPath) \o BRACE_EXTENSIONS
FirstFiles(importPath) == OnDisk(FilesFor(importPath))

\* <storyDir>/<importPath>/index.{js,jsx,ts,tsx} and the files it stands for
IndexPattern(importPath) ==
    PathJoin(PathDirname(filePath), importPath) \o INDEX_BRACE_EXTENSIONS
IndexFiles(importPath) ==
    OnDisk({PathJoin(PathDirname(filePath), importPath) \o <<"/", "i", "n", "d", "e", "x",
             ".">> \o e : e \in Extensions})

\* the import path the associator has taken from the story's text
FoundImportPath ==
    ComponentImportMatch(content, Trim(ComponentMatch(content).cap)).cap

\* the candidates of the import path P are asked about in their order, and
\* componentFile is a file of the first of them that has one
QueriedInOrder(P) ==
    /\ queries \in {<<>>, <<FirstPattern(P)>>, <<FirstPattern(P), IndexPattern(P)>>}
    /\ Len(queries) = 2 => FirstFiles(P) = {}
    /\ componentFile.present /\ Len(queries) = 2 =>
          componentFile.value \in IndexFiles(P)
    /\ pc \in {"component", "done", "failed"} =>
          /\ FirstFiles(P) # {} =>
                /\ componentFile.present
                /\ componentFile.value \in FirstFiles(P)
                /\ queries = <<FirstPattern(P)>>
          /\ FirstFiles(P) = {} /\ IndexFiles(P) # {} =>
                /\ componentFile.present
                /\ componentFile.value \in IndexFiles(P)
                /\ queries = <<FirstPattern(P), IndexPattern(P)>>
          /\ FirstFiles(P) = {} /\ IndexFiles(P) = {} =>
                /\ ~componentFile.present
                /\ queries = <<FirstPattern(P), IndexPattern(P)>>
    /\ pc = "done" => res.componentFile = componentFile

\* C23: the candidates are queried in the order <importPath>.<ext>, then
\* <importPath>/index.<ext>; componentFile comes from the first candidate
\* whenever it has a match, the index candidate is queried and used only
\* when the first has none, and componentFile is absent when neither matches.
\* This for the import path of the named import of a component whose name
\* is made of letters, digits and underscores, and for whatever import path
\* the associator has taken once it has asked the file resolver.
C23_CandidatesQueriedInOrder ==
    /\ ( /\ MetaIndexes # {}
         /\ \A i \in 1..Len(StoryComponentId) : StoryComponentId[i] \in WordChars
         /\ NamedIndexes(StoryComponentId) # {} )
       => QueriedInOrder(NamedImportPath(StoryComponentId))
    /\ queries # <<>> => QueriedInOrder(FoundImportPath)

\* a file matches both candidates and the first candidate's file is taken
C23_Witness ==
    /\ pc = "done"
    /\ MetaIndexes # {}
    /\ NamedIndexes(StoryComponentId) # {}
    /\ FirstFiles(NamedImportPath(StoryComponentId)) # {}
    /\ IndexFiles(NamedImportPath(StoryComponentId)) # {}
    /\ res.componentFile = Some(FButtonTsx)
    /\ Len(queries) = 1

----------------------------------------------------------------------------
(* The records Promise.all hands to the reporter                           *)

\* the record of the i-th discovered file is complete and is that file's
CompleteRecordOf(r, i) ==
    /\ r # Null
    /\ DOMAIN r = DOMAIN found.value[i].analysis \cup {"file"}
    /\ r.file = IF mode = "analyze" THEN StoryFileOf(i) ELSE PreviewFileOf(i)
    /\ \A f \in DOMAIN found.value[i].analysis \ {"file"} :
          r[f] = found.value[i].analysis[f]

\* C24: however the per-file analyses interleave, the list handed to the
\* reporter holds exactly one complete record per discovered file, in
\* discovery order, and the reporter runs only after every analysis has
\* completed; no partial or merged record is handed over.
C24_OneCompleteRecordPerFileInOrder ==
    /\ results # <<>> =>
          /\ pc = "exited"
          /\ Len(results) = Len(found.value)
          /\ \A i \in 1..Len(results) : CompleteRecordOf(results[i], i)
    /\ ReportShown =>
          \A i \in 1..Len(tasks) : tasks[i].st = "fulfilled"

\* two analyses were suspended at once and the report was made; the first
\* file's analysis waited for glob and the second file's did not, so that the
\* second was complete before the first
C24_Witness ==
    /\ pc = "exited"
    /\ mode = "analyze"
    /\ ReportShown
    /\ Len(results) = 2
    /\ found.value[1].asks > 0
    /\ found.value[2].asks = 0
    /\ results[1] # [results[2] EXCEPT !.file = results[1].file]

----------------------------------------------------------------------------
(* The creation of the config file: createChromaticConfig                  *)

PROJECT_PREFIX == <<"P", "r", "o", "j", "e", "c", "t", ":">>

\* String.prototype.replace(pattern, '') with a string pattern: the first
\* occurrence of the pattern is removed, wherever it is
RemoveFirst(s, pattern) ==
    LET P == {p \in 1..Len(s) : IsLit(s, p, pattern)}
    IN  IF P = {} THEN s
        ELSE SubSeq(s, 1, SetMin(P) - 1) \o SubSeq(s, SetMin(P) + Len(pattern), Len(s))

\* a string value kept as its characters; '' is falsy
TruthyText(v) == v.type = "string" /\ Len(v.s) > 0

\* lines 88-97: the project ID taken from the existing file
ExistingProjectId(existing) ==
    IF existing.present /\ TruthyText(Get(existing.value, K_PROJECT_ID))
    THEN RemoveFirst(existing.value[K_PROJECT_ID].s, PROJECT_PREFIX)
    ELSE <<>>

\* a value of the file in a boolean position
TruthyJson(v) == IF v.type = "string" THEN Len(v.s) > 0 ELSE Truthy(v)

\* existingConfig.projectId.replace is called on a value that is not a
\* string: TypeError
ReplaceThrows(existing) ==
    /\ existing.present
    /\ TruthyJson(Get(existing.value, K_PROJECT_ID))
    /\ Get(existing.value, K_PROJECT_ID).type # "string"

\* an empty answer taken as a project ID
ProjectIdOptional(newProjectId) == FALSE

\* if (!newProjectId) throw new Error('Project ID is required')
ProjectIdRequired(newProjectId) == Len(newProjectId) = 0

ProjectIdRequiredError == [error |-> "Project ID is required"]

\* lines 92-97: what createChromaticConfig throws before its prompt, in the
\* order of its statements
CreateError(existing) ==
    IF existing.present /\ JsonParseThrows(existing) THEN existing.error
    ELSE IF ReplaceThrows(existing) THEN "TypeError"
    ELSE "none"

\* createChromaticConfig of part_004, lines 116-124: the existing properties
\* are spread into the new config
createChromaticConfig(existing, m, projectId) ==
    Spread(IF existing.present THEN existing.value ELSE <<>>,
           (K_SCHEMA :> SCHEMA_URL)
           @@ (K_PROJECT_ID :> Str(PROJECT_PREFIX \o projectId))
           @@ StorybookProps(m)
           @@ (K_ONLY_CHANGED :> Bool(TRUE)))

\* createChromaticConfig of part_003, lines 99-101, 118-126: only the externals
\* of the existing file are kept
createChromaticConfigExternals(existing, m, projectId) ==
    LET existingExternals ==
            IF existing.present /\ Truthy(Get(existing.value, K_EXTERNALS))
            THEN existing.value[K_EXTERNALS]
            ELSE Arr(<<>>)
    IN  (K_SCHEMA :> SCHEMA_URL)
        @@ (K_PROJECT_ID :> Str(PROJECT_PREFIX \o projectId))
        @@ StorybookProps(m)
        @@ (K_ONLY_CHANGED :> Bool(TRUE))
        @@ (K_EXTERNALS :> existingExternals)

TitleCreating == "Creating Chromatic Config"

IdAbc == <<"a", "b", "c">>

\* the chromatic.config.json beside the Storybook project, when there is one
CreateConfigs ==
    {None, Unparsable, ADirectory}
    \cup { Some(Defined((K_PROJECT_ID :> id) @@ (K_EXTERNALS :> ex)
                        @@ (K_ZIP :> Bool(TRUE)))) :
             id \in {Undefined, Str(<<>>), Str(PROJECT_PREFIX), Str(IdAbc),
                     Str(PROJECT_PREFIX \o IdAbc), Bool(TRUE)},
             ex \in {Undefined, Arr(<<ExternalPublicPng>>)} }

CreateAnswers ==
    { [newProjectId |-> id] : id \in {<<>>, IdAbc, PROJECT_PREFIX \o IdAbc} }

InitCreate ==
    /\ stmts = <<>>
    /\ content = <<>>
    /\ manifest = NoManifest
    /\ pc = "start"
    /\ res = Null
    /\ report = Null
    /\ filePath = <<>>
    /\ files = <<>>
    /\ pending = <<>>
    /\ queries = <<>>
    /\ imports = Null
    /\ componentFile = None
    /\ ModeIdle
    /\ FlowIdle
    /\ variant \in {"part_004", "part_003"}
    /\ existingConfig \in CreateConfigs
    /\ meta \in Metas
    /\ answers \in CreateAnswers
    /\ written = None

\* lines 127-129: the config is written and returned; the file of the next
\* run is the file written
CreateWrites(config) ==
    /\ written' = Some(JsonWritten(config))
    /\ existingConfig' = Some(JsonWritten(config))
    /\ res' = config
    /\ returned' = written
    /\ pc' = IF written = None THEN "written" ELSE "rewritten"

\* an error leaves createChromaticConfig: nothing is written
CreateThrows(error) ==
    /\ res' = [error |-> error]
    /\ pc' = "thrown"
    /\ UNCHANGED <<written, existingConfig, returned>>

\* line 101: createChromaticConfig waits for the answer to newProjectId
CreateAwaits ==
    /\ asked' = Append(asked, "newProjectId")
    /\ pc' = "newProjectId"
    /\ UNCHANGED <<res, written, existingConfig, returned>>

\* createChromaticConfig of part_004 from its call to its prompt, lines
\* 81-101, or to its end when the file supplies a project ID. It runs on the
\* file as it is: on the file found at the start, and once more on the file
\* the first run wrote
CreateChromaticConfigStep ==
    /\ pc \in {"start", "written"}
    /\ variant = "part_004"
    /\ shown' = Append(shown, TitleCreating)
    /\ LET projectId == ExistingProjectId(existingConfig)
       IN  IF CreateError(existingConfig) # "none"
           THEN CreateThrows(CreateError(existingConfig)) /\ UNCHANGED asked
           ELSE IF Len(projectId) > 0
           THEN /\ CreateWrites(createChromaticConfig(existingConfig, meta, projectId))
                /\ UNCHANGED asked
           ELSE CreateAwaits
    /\ UNCHANGED <<stmts, content, manifest, report, storyVars, results, mode,
                   storybookDirs, selectedProject, found, tasks, jobs, exit, variant,
                   meta, answers, packageJson, configPath, configured>>

\* createChromaticConfig of part_003 from its call to its prompt, lines
\* 83-106, run the same way
CreateChromaticConfigExternalsStep ==
    /\ pc \in {"start", "written"}
    /\ variant = "part_003"
    /\ shown' = Append(shown, TitleCreating)
    /\ LET projectId == ExistingProjectId(existingConfig)
       IN  IF CreateError(existingConfig) # "none"
           THEN CreateThrows(CreateError(existingConfig)) /\ UNCHANGED asked
           ELSE IF Len(projectId) > 0
           THEN /\ CreateWrites(createChromaticConfigExternals(existingConfig, meta,
                                                               projectId))
                /\ UNCHANGED asked
           ELSE CreateAwaits
    /\ UNCHANGED <<stmts, content, manifest, report, storyVars, results, mode,
                   storybookDirs, selectedProject, found, tasks, jobs, exit, variant,
                   meta, answers, packageJson, configPath, configured>>

\* the answer to newProjectId arrives, lines 101-130 (part_003: 106-132): an
\* empty answer throws, an ID is written after 'Project:'
NewProjectIdAnswered ==
    /\ pc = "newProjectId"
    /\ LET newProjectId == answers.newProjectId
       IN  IF ProjectIdRequired(newProjectId)
           THEN CreateThrows(ProjectIdRequiredError.error)
           ELSE CreateWrites(IF variant = "part_004"
                             THEN createChromaticConfig(existingConfig, meta,
                                                        newProjectId)
                             ELSE createChromaticConfigExternals(existingConfig, meta,
                                                                 newProjectId))
    /\ UNCHANGED <<stmts, content, manifest, report, storyVars, modeVars, variant, meta,
                   answers, packageJson, configPath, asked, configured>>

NextCreate ==
    \/ CreateChromaticConfigStep
    \/ CreateChromaticConfigExternalsStep
    \/ NewProjectIdAnswered

SpecCreate == InitCreate /\ [][NextCreate]_vars

\* C27: with no project ID from the existing file and an empty answer,
\* createChromaticConfig fails with 'Project ID is required' and writes
\* nothing; the user is asked for a project ID only when the existing file
\* supplies none. (The file the run started from is existingConfig while
\* nothing is written.)
C27_NoProjectIdNoWrite ==
    /\ pc = "thrown" => written = None
    /\ (pc = "thrown" /\ ~JsonParseThrows(existingConfig) /\ ~ReplaceThrows(existingConfig)) =>
          /\ res = ProjectIdRequiredError
          /\ answers.newProjectId = <<>>
          /\ asked = <<"newProjectId">>
          /\ ~existingConfig.present
             \/ K_PROJECT_ID \notin DOMAIN existingConfig.value
             \/ existingConfig.value[K_PROJECT_ID].s \in {<<>>, PROJECT_PREFIX}
    /\ pc = "written" =>
          /\ written.value[K_PROJECT_ID].s # PROJECT_PREFIX
          /\ asked \in {<<>>, <<"newProjectId">>}
          /\ asked = <<"newProjectId">> => answers.newProjectId # <<>>
          /\ asked = <<>> =>
                written.value[K_PROJECT_ID].s \in {PROJECT_PREFIX \o IdAbc}
    /\ pc = "rewritten" => asked \in {<<>>, <<"newProjectId">>}
    /\ (pc = "start" /\ answers.newProjectId # <<>>) => written = None

\* the existing file has no projectId and the user entered nothing
C27_Witness ==
    /\ pc = "thrown"
    /\ existingConfig.present
    /\ K_PROJECT_ID \notin DOMAIN existingConfig.value
    /\ K_EXTERNALS \in DOMAIN existingConfig.value
    /\ written = None

\* C28: the projectId written has exactly one leading 'Project:': a second
\* run on the written file leaves projectId as it was, and an entered ID that
\* begins with 'Project:' is not prefixed again.
C28_ExactlyOneProjectPrefix ==
    /\ written.present =>
          /\ StartsWith(written.value[K_PROJECT_ID].s, PROJECT_PREFIX)
          /\ ~StartsWith(RemoveFirst(written.value[K_PROJECT_ID].s, PROJECT_PREFIX),
                         PROJECT_PREFIX)
    /\ pc = "rewritten" =>
          written.value[K_PROJECT_ID] = returned.value[K_PROJECT_ID]

----------------------------------------------------------------------------
(* Static assets: reviewAssets, promptForStaticAssets, findCommonPath      *)

\* projectRoot = process.cwd() (project-detection.ts)
ProjectRoot == CWD
RepoRoot == <<"/", "r">>

\* lines 73-86: Object.entries(groupedAssets), the directories of the assets
\* relative to baseDir
GroupedDirs(assets, baseDir) ==
    OwnKeys(Distinct([i \in 1..Len(assets) |->
                         PathDirname(PathRelative(baseDir, assets[i]))]))

\* reviewAssets, lines 46-99
reviewAssets(assets, baseDir, a) ==
    IF Len(assets) = 0 THEN <<>>
    ELSE IF a.reviewType = "individual" THEN Pick(assets, a.chosen)
    ELSE LET selectedPaths == Pick(GroupedDirs(assets, baseDir), a.chosen)
         IN  SelectSeq(assets,
                 LAMBDA asset :
                     \E i \in 1..Len(selectedPaths) :
                         StartsWith(PathRelative(baseDir, asset), selectedPaths[i]))

\* reviewAssets throws: the grouping by directory meets an inherited name
ReviewThrows(assets, baseDir, a) ==
    /\ Len(assets) > 0
    /\ a.reviewType = "path"
    /\ GroupingThrows([i \in 1..Len(assets) |->
                          PathDirname(PathRelative(baseDir, assets[i]))])

\* findCommonPath, lines 207-224
findCommonPath(paths) ==
    IF Len(paths) = 0 THEN <<>>
    ELSE LET parts == [i \in 1..Len(paths) |-> SplitPath(paths[i])]
             minLength == SetMin({Len(parts[i]) : i \in 1..Len(parts)})
             common == {n \in 0..minLength :
                          \A j \in 1..n : \A i \in 1..Len(parts) :
                              parts[i][j] = parts[1][j]}
         IN  Flatten([j \in 1..SetMax(common) |-> parts[1][j] \o <<"/">>])

\* path.extname(asset).slice(1)
ExtOf(asset) ==
    IF PathExtname(asset) = <<>> THEN <<>> ELSE Tail(PathExtname(asset))

\* lines 183-201: the entries added to externals
ExternalsOf(selectedAssets, assetType) ==
    IF assetType = "individual"
    THEN [i \in 1..Len(selectedAssets) |-> PathRelative(ProjectRoot, selectedAssets[i])]
    ELSE LET exts == OwnKeys(Distinct([i \in 1..Len(selectedAssets) |->
                                          ExtOf(selectedAssets[i])]))
         IN  [e \in 1..Len(exts) |->
                 PathRelative(ProjectRoot,
                     findCommonPath(SelectSeq(selectedAssets,
                                              LAMBDA x : ExtOf(x) = exts[e]))
                         \o <<"*", "*", "/", "*", ".">> \o exts[e])]

ProjectAssetPool ==
    { <<"/", "r", "/", "p", "/", "l", "o", "g", "o", ".", "p", "n", "g">>, <<"/", "r",
        "/", "p", "/", "p", "u", "b", "l", "i", "c", "/", "a", ".", "p", "n", "g">>,
        <<"/", "r", "/", "p", "/", "p", "u", "b", "l", "i", "c", "/", "b", ".", "s",
        "v", "g">>,
      <<"/", "r", "/", "p", "/", "p", "u", "b", "l", "i", "c", "-", "o", "l", "d", "/",
        "c", ".", "p", "n", "g">> }

RepoConstructorAsset == <<"/", "r", "/", "c", "o", "n", "s", "t", "r", "u", "c", "t", "o", "r", "/", "f", ".", "p", "n", "g">>

TitleAssetsFound == "Static Assets Found"
TitleWarning == "Warning"

RepoAsset == <<"/", "r", "/", "s", "h", "a", "r", "e", "d", "/", "e", ".", "s", "v",
               "g">>

\* what findStaticAssets can return
AssetResults ==
    { [projectAssets |-> p, repoAssets |-> r] :
        p \in DistinctSeqsUpTo(ProjectAssetPool, MaxAssets),
        r \in {<<>>, <<RepoAsset>>, <<RepoConstructorAsset>>} }

NoReview == [reviewType |-> "individual", chosen |-> {}]

\* the answers a user can give for the assets found
AssetAnswers(assets) ==
    { [addStaticAssets |-> FALSE, assetLevel |-> "project", project |-> NoReview,
       repo |-> NoReview, assetType |-> "individual"] }
    \cup { [addStaticAssets |-> TRUE, assetLevel |-> lv,
            project |-> [reviewType |-> pt, chosen |-> pc1],
            repo |-> [reviewType |-> rt, chosen |-> rc], assetType |-> ty] :
             lv \in {"project", "repo", "both"}, pt \in {"individual", "path"},
             rt \in {"individual", "path"},
             pc1 \in SUBSET (1..Len(assets.projectAssets)),
             rc \in SUBSET (1..Len(assets.repoAssets)),
             ty \in {"individual", "glob"} }

InitAssets ==
    /\ stmts = <<>>
    /\ content = <<>>
    /\ manifest = NoManifest
    /\ pc = "start"
    /\ res = <<>>
    /\ report = Null
    /\ filePath = <<>>
    /\ files = <<>>
    /\ pending = <<>>
    /\ queries = <<>>
    /\ imports = Null
    /\ componentFile = None
    /\ results = <<>>
    /\ mode = "init"
    /\ storybookDirs = <<>>
    /\ selectedProject = None
    /\ \E a \in AssetResults :
          /\ found = Some(a)
          /\ answers \in AssetAnswers(a)
    /\ tasks = <<>>
    /\ jobs = <<>>
    /\ shown = <<>>
    /\ exit = None
    /\ variant = "part_000"
    /\ existingConfig = <<>>
    /\ meta = <<>>
    /\ written = None
    /\ FlowIdle

\* promptForStaticAssets and the reviewAssets it awaits, turn by turn. res is
\* selectedAssets, the assets selected so far; pc names the prompt the function
\* waits at, with the review it belongs to

\* the variables a turn of promptForStaticAssets changes
AssetsNow ==
    [shown |-> shown, asked |-> asked, res |-> res, pc |-> pc, returned |-> returned]

AssetsBecome(s) ==
    /\ shown' = s.shown
    /\ asked' = s.asked
    /\ res' = s.res
    /\ pc' = s.pc
    /\ returned' = s.returned
    /\ UNCHANGED <<stmts, content, manifest, report, storyVars, results, mode,
                   storybookDirs, selectedProject, found, tasks, jobs, exit, configVars,
                   packageJson, configPath, configured>>

\* await prompt({ name }): the turn ends at the prompt
AssetsAwait(s, name, at) == [s EXCEPT !.asked = Append(@, name), !.pc = at]

AssetsBox(s, title) == [s EXCEPT !.shown = Append(@, title)]

AssetsReturn(s, externals) == [s EXCEPT !.returned = Some(externals), !.pc = "returned"]

AssetsThrow(s) == [s EXCEPT !.pc = "thrown"]

\* lines 169-180: nothing selected returns [], else assetType is asked
SelectionDone(s) ==
    IF Len(s.res) = 0 THEN AssetsReturn(s, <<>>)
    ELSE AssetsAwait(s, "assetType", "assetType")

\* lines 157-167, 46-57: the repository assets are reviewed, or the warning
\* is shown
RepoHandled(s, a, assetLevel) ==
    IF assetLevel \notin {"repo", "both"} THEN SelectionDone(s)
    ELSE IF Len(a.repoAssets) > 0
    THEN AssetsAwait(s, "reviewType", "repository.reviewType")
    ELSE SelectionDone(AssetsBox(s, TitleWarning))

\* lines 144-154, 46-57: the project assets are reviewed, or the warning is
\* shown
ProjectHandled(s, a, assetLevel) ==
    IF assetLevel \notin {"project", "both"} THEN RepoHandled(s, a, assetLevel)
    ELSE IF Len(a.projectAssets) > 0
    THEN AssetsAwait(s, "reviewType", "project.reviewType")
    ELSE RepoHandled(AssetsBox(s, TitleWarning), a, assetLevel)

\* the review a prompt of reviewAssets belongs to: its assets, its base
\* directory and the user's answers to it
ReviewAt(position) ==
    IF position \in {"project.reviewType", "project.selectedAssets",
                     "project.selectedPaths"}
    THEN [source |-> "project", assets |-> found.value.projectAssets,
          baseDir |-> ProjectRoot, a |-> answers.project]
    ELSE [source |-> "repository", assets |-> found.value.repoAssets,
          baseDir |-> RepoRoot, a |-> answers.repo]

\* lines 147, 160: selectedAssets.push(...) of what reviewAssets returned, and
\* the rest of promptForStaticAssets to its next prompt
ReviewReturned(s, r) ==
    LET pushed == [s EXCEPT !.res = @ \o reviewAssets(r.assets, r.baseDir, r.a)]
    IN  IF r.source = "project"
        THEN RepoHandled(pushed, found.value, answers.assetLevel)
        ELSE SelectionDone(pushed)

\* promptForStaticAssets from its call, lines 104-121: nothing found returns
\* [], else the box is shown and addStaticAssets is asked
PromptForStaticAssetsStep ==
    /\ pc = "start"
    /\ variant = "part_000"
    /\ AssetsBecome(
          IF Len(found.value.projectAssets) = 0 /\ Len(found.value.repoAssets) = 0
          THEN AssetsReturn(AssetsNow, <<>>)
          ELSE AssetsAwait(AssetsBox(AssetsNow, TitleAssetsFound),
                           "addStaticAssets", "addStaticAssets"))

\* lines 118-140: a refusal returns [], else assetLevel is asked
AddStaticAssetsAnswered ==
    /\ pc = "addStaticAssets"
    /\ AssetsBecome(
          IF ~answers.addStaticAssets THEN AssetsReturn(AssetsNow, <<>>)
          ELSE AssetsAwait([AssetsNow EXCEPT !.res = <<>>], "assetLevel", "assetLevel"))

\* lines 132-180: assetLevel is answered and the reviews begin
AssetLevelAnswered ==
    /\ pc = "assetLevel"
    /\ AssetsBecome(ProjectHandled(AssetsNow, found.value, answers.assetLevel))

\* reviewAssets, lines 49-91: individual files are offered, or the assets
\* are grouped by directory, which may throw, and the directories are offered
ReviewTypeAnswered ==
    /\ pc \in {"project.reviewType", "repository.reviewType"}
    /\ LET r == ReviewAt(pc)
       IN  AssetsBecome(
              IF r.a.reviewType = "individual"
              THEN AssetsAwait(AssetsNow, "selectedAssets",
                               IF r.source = "project" THEN "project.selectedAssets"
                               ELSE "repository.selectedAssets")
              ELSE IF ReviewThrows(r.assets, r.baseDir, r.a) THEN AssetsThrow(AssetsNow)
              ELSE AssetsAwait(AssetsNow, "selectedPaths",
                               IF r.source = "project" THEN "project.selectedPaths"
                               ELSE "repository.selectedPaths"))

\* reviewAssets, lines 60-70: the files selected are returned
SelectedAssetsAnswered ==
    /\ pc \in {"project.selectedAssets", "repository.selectedAssets"}
    /\ AssetsBecome(ReviewReturned(AssetsNow, ReviewAt(pc)))

\* reviewAssets, lines 82-98: the assets under the directories selected are
\* returned
SelectedPathsAnswered ==
    /\ pc \in {"project.selectedPaths", "repository.selectedPaths"}
    /\ AssetsBecome(ReviewReturned(AssetsNow, ReviewAt(pc)))

\* promptForStaticAssets, lines 173-201: the entries returned; the grouping
\* by extension may throw
AssetTypeAnswered ==
    /\ pc = "assetType"
    /\ AssetsBecome(
          IF answers.assetType # "individual"
             /\ GroupingThrows([i \in 1..Len(res) |-> ExtOf(res[i])])
          THEN AssetsThrow(AssetsNow)
          ELSE AssetsReturn(AssetsNow, ExternalsOf(res, answers.assetType)))

NextAssets ==
    \/ PromptForStaticAssetsStep
    \/ AddStaticAssetsAnswered
    \/ AssetLevelAnswered
    \/ ReviewTypeAnswered
    \/ SelectedAssetsAnswered
    \/ SelectedPathsAnswered
    \/ AssetTypeAnswered

SpecAssets == InitAssets /\ [][NextAssets]_vars

\* the directories the user selected among those of the project's assets
SelectedDirs ==
    LET dirs == GroupedDirs(found.value.projectAssets, ProjectRoot)
    IN  {dirs[i] : i \in answers.project.chosen \cap (1..Len(dirs))}

\* C29: reviewed by file path, the assets returned are exactly those whose
\* directory relative to the base directory is a selected directory,
\* those directly in the base directory included, and none of an unselected
\* directory whose path starts with a selected one's.
C29_ExactlyTheAssetsOfTheSelectedDirectories ==
    ( /\ pc \in {"assetType", "returned"}
      /\ answers.addStaticAssets
      /\ answers.assetLevel = "project"
      /\ answers.project.reviewType = "path" )
    => res = SelectSeq(found.value.projectAssets,
                       LAMBDA asset :
                           PathDirname(PathRelative(ProjectRoot, asset)) \in SelectedDirs)

\* the extensions of the selected assets
SelectedExts == {ExtOf(res[i]) : i \in 1..Len(res)}

\* the pattern is <dir>/**/*.<ext> for a directory that holds the asset, and
\* the asset has that extension
PatternMatches(pattern, asset) ==
    LET ps == AbsSegments(ProjectRoot \o <<"/">> \o pattern)
        as == AbsSegments(asset)
        n == Len(ps)
    IN  /\ n >= 2
        /\ ps[n - 1] = <<"*", "*">>
        /\ ps[n] = <<"*", ".">> \o ExtOf(asset)
        /\ n - 2 <= Len(as) - 1
        /\ SubSeq(as, 1, n - 2) = SubSeq(ps, 1, n - 2)

\* C30: added as glob patterns, the selected assets give one pattern per
\* distinct extension, and every selected asset is matched by the pattern of
\* its extension, also when it is the only asset of that extension.
C30_EverySelectedAssetMatchedByItsPattern ==
    (pc = "returned" /\ Len(res) > 0 /\ answers.assetType = "glob") =>
        /\ Len(returned.value) = Cardinality(SelectedExts)
        /\ \A i \in 1..Len(res) :
              \E k \in 1..Len(returned.value) : PatternMatches(returned.value[k], res[i])

----------------------------------------------------------------------------
(* Init mode turn by turn: buildConfig of index.ts and the functions it    *)
(* awaits.  An action is one turn of the event loop: it starts when the    *)
(* promise a function waits for settles (a prompt is answered, glob or     *)
(* readConfig is done) and runs to the next such await, to the return of   *)
(* buildConfig or to the end of the process.  A function that returns      *)
(* hands over to its caller within the turn.                               *)


\* the characters of a string
Chars(s) == [i \in 1..Len(s) |-> SubSeq(s, i, i)]

\* the titles of the boxes, without their pictograms
TitleHelper == "@chromaui/turbosnap-helper"
TitleGoodbye == "Goodbye!"
TitleProject == "Storybook Project"
TitleProjectDetails == "Here are your project details"
TitleSearching == "Searching for Config"
TitleConfigFilesFound == "Config Files Found"
TitleConfigSelected == "Config Selected"
TitleConfigFileFound == "Config File Found"
TitleExistingConfigFound == "Existing Config Found"
TitleConfigurationChanges == "Configuration Changes"
TitleUpdateCancelled == "Update Cancelled"
TitleStaticAssets == "Static Assets"
TitleExternalsUpdate == "Externals Update"
TitleSuccess == "Success!"
TitleNoScriptFound == "No Script Found"
TitleScriptUpToDate == "Script Up to Date"
TitlePackageJsonUpdate == "Package.json Update"

BASE_CONFIG == Chars("chromatic.config.json")
PACKAGE_JSON == Chars("package.json")
ROOT_PACKAGE_JSON == Chars("./package.json")
STORYBOOK_SEGMENT == Chars("/.storybook")
STORYBOOK_STATIC == Chars("storybook-static")

\* the part of the state a turn of the init flow can change
Flow ==
    [pc |-> pc, shown |-> shown, asked |-> asked, answers |-> answers, exit |-> exit,
     res |-> res, report |-> report, written |-> written,
     existingConfig |-> existingConfig, configPath |-> configPath, meta |-> meta,
     packageJson |-> packageJson, files |-> files, configured |-> configured,
     selectedProject |-> selectedProject, storybookDirs |-> storybookDirs]

\* the state at the end of the turn
Becomes(f) ==
    /\ pc' = f.pc
    /\ shown' = f.shown
    /\ asked' = f.asked
    /\ answers' = f.answers
    /\ exit' = f.exit
    /\ res' = f.res
    /\ report' = f.report
    /\ written' = f.written
    /\ existingConfig' = f.existingConfig
    /\ configPath' = f.configPath
    /\ meta' = f.meta
    /\ packageJson' = f.packageJson
    /\ files' = f.files
    /\ configured' = f.configured
    /\ selectedProject' = f.selectedProject
    /\ storybookDirs' = f.storybookDirs
    /\ UNCHANGED <<stmts, content, manifest, filePath, pending, queries, imports,
                   componentFile, results, mode, found, tasks, jobs, variant, returned>>

\* the function goes on in Next with the flow f
Then(f, Next(_)) == CHOOSE r \in { Next(g) : g \in {f} } : TRUE

\* one turn: the flow f runs through Runs to the next await or to the end
Turn(f, Runs(_)) == \E g \in {f} : \E r \in {Runs(g)} : Becomes(r)

\* console.log(boxen(..., { title }))
Box(f, title) == [f EXCEPT !.shown = Append(@, title)]

\* await prompt({ name }): the function waits for the answer at `at`
AskAt(f, name, at) == [f EXCEPT !.asked = Append(@, name), !.pc = at]

Ask(f, name) == AskAt(f, name, name)

\* the answer to the prompt that was pending: answers[i] answers asked[i]
Answered(f, v) == [f EXCEPT !.answers = Append(@, v)]

\* await of glob or readConfig: the function waits at `at`
Awaits(f, at) == [f EXCEPT !.pc = at]

\* process.exit(code)
Exits(f, code) == [f EXCEPT !.exit = Some(code), !.pc = "exited"]

\* an exception nothing inside buildConfig catches
Throws(f, error) == [f EXCEPT !.res = [error |-> error], !.pc = "thrown"]

\* the answers given to the prompt `name`, in the order they were given
AnswersTo(name) == Pick(answers, {i \in 1..Len(answers) : asked[i] = name})

\* the prompts of the pass under way come after its selectedProject prompt
PassStart(f) ==
    LET I == {i \in 1..Len(f.asked) : f.asked[i] = "selectedProject"}
    IN  IF I = {} THEN 0 ELSE SetMax(I)

\* the answer given to the prompt `name` in the pass under way
LastAnswer(f, name, default) ==
    LET I == {i \in (PassStart(f) + 1)..Len(f.answers) : f.asked[i] = name}
    IN  IF I = {} THEN default ELSE f.answers[SetMax(I)]

\* the answers before any prompt is answered
NoAnswers ==
    [shouldUpdate |-> TRUE, confirmUpdate |-> TRUE, updateExternals |-> FALSE,
     selectionMode |-> "none", showDetails |-> FALSE, showPaths |-> FALSE, chosen |-> {},
     useGlob |-> FALSE, confirmExternals |-> FALSE]

\* the constants the update holds after its awaits: shouldUpdate, ...,
\* confirmExternals; chosen is the set of the choices ticked at `assets`
GivenIn(f) ==
    [shouldUpdate |-> LastAnswer(f, "shouldUpdate", NoAnswers.shouldUpdate),
     confirmUpdate |-> LastAnswer(f, "confirmUpdate", NoAnswers.confirmUpdate),
     updateExternals |-> LastAnswer(f, "updateExternals", NoAnswers.updateExternals),
     selectionMode |-> LastAnswer(f, "selectionMode", NoAnswers.selectionMode),
     showDetails |-> LastAnswer(f, "showDetails", NoAnswers.showDetails),
     showPaths |-> LastAnswer(f, "showPaths", NoAnswers.showPaths),
     chosen |-> LastAnswer(f, "assets", NoAnswers.chosen),
     useGlob |-> LastAnswer(f, "useGlob", NoAnswers.useGlob),
     confirmExternals |-> LastAnswer(f, "confirmExternals", NoAnswers.confirmExternals)]

Given == GivenIn(Flow)

(* The disk: files.assets is what glob lists as static assets, files.present *)
(* the assets fs.statSync still finds, files.configs the config files and    *)
(* files.packages the package.json files, by their path from process.cwd()   *)

\* the path of a file from process.cwd()
DiskKey(p) == PathRelative(CWD, p)

\* a path of the disk lies below the directory cwd
Below(p, cwd) == cwd = <<".">> \/ StartsWith(p, cwd \o <<"/">>)

\* the path from cwd
PathFrom(p, cwd) == IF cwd = <<".">> THEN p ELSE SubSeq(p, Len(cwd) + 2, Len(p))

\* fast-glob with ignore: ['**/node_modules/**'] and dot: false: no name of
\* the path is node_modules or begins with a dot
Globbed(rel) ==
    LET segs == SplitPath(rel)
    IN  \A i \in 1..Len(segs) :
            /\ segs[i] # <<>>
            /\ segs[i] # NODE_MODULES
            /\ segs[i][1] # "."

\* *.config.{js,json}
IsConfigFile(name) ==
    EndsWith(name, Chars(".config.js")) \/ EndsWith(name, Chars(".config.json"))

\* chromatic.config.{js,json}
IsChromaticConfigFile(name) ==
    name \in {Chars("chromatic.config.js"), Chars("chromatic.config.json")}

\* glob('**/' + pattern, { cwd, ignore }): the files below cwd whose name
\* the pattern takes, as paths from cwd
GlobFiles(disk, cwd, Named(_)) ==
    { PathFrom(p, cwd) :
        p \in { q \in DOMAIN disk.configs :
                  /\ Below(q, cwd)
                  /\ Globbed(PathFrom(q, cwd))
                  /\ Named(PathBasename(q)) } }

\* glob(..., { cwd, absolute: true })
GlobAbsolute(disk, cwd, Named(_)) ==
    { PathResolve(PathJoin(cwd, file)) : file \in GlobFiles(disk, cwd, Named) }

\* fs.readFileSync(p, 'utf-8') of a config file, to be parsed
ConfigRead(disk, p) == disk.configs[DiskKey(p)]

\* the files of the disk: the config files, the package.json files and the
\* static assets still there
DiskFiles(disk) == DOMAIN disk.configs \cup DOMAIN disk.packages \cup disk.present

\* the directories above a path
DirsAbove(p) == { SubSeq(p, 1, j - 1) : j \in {i \in 2..Len(p) : p[i] = "/"} }

\* process.cwd() and the directories above it, by their path from
\* process.cwd()
CwdDirectories == { DiskKey(d) : d \in DirsAbove(CWD) \cup {<<"/">>, CWD} }

\* the directory d lies above the path q
IsAbove(d, q) == d # <<>> /\ Len(q) > Len(d) /\ q[Len(d) + 1] = "/" /\ SubSeq(q, 1, Len(d)) = d

\* a directory of the disk: process.cwd() or one above it, a Storybook
\* directory glob found, or a directory above a file or a Storybook directory
IsDirectory(disk, dirs, d) ==
    \/ d \in CwdDirectories
    \/ \E i \in 1..Len(dirs) : d = dirs[i] \/ IsAbove(d, dirs[i])
    \/ \E q \in DiskFiles(disk) : IsAbove(d, q)

\* what fs.existsSync(p) finds for the path key from process.cwd()
ExistsAt(disk, dirs, key) == key \in DiskFiles(disk) \/ IsDirectory(disk, dirs, key)

\* fs.existsSync(p): true for a file and for a directory
Exists(disk, dirs, p) == ExistsAt(disk, dirs, DiskKey(p))

K_SCRIPTS == "scripts"

\* a package.json as the object JSON.parse gives: its scripts, and the other
\* properties it was written with
PackageJsonObject(pj) ==
    (K_SCRIPTS :> [type |-> "object", props |-> pj.value])
    @@ (IF "props" \in DOMAIN pj THEN pj.props ELSE <<>>)

\* a package.json of the content read or written: its scripts and its other
\* properties
PackageJsonOf(json) ==
    [present |-> TRUE,
     value |-> IF Get(json, K_SCRIPTS).type = "object" THEN json[K_SCRIPTS].props
               ELSE <<>>,
     props |-> [k \in DOMAIN json \ {K_SCRIPTS} |-> json[k]]]

\* JSON.parse(fs.readFileSync(p, 'utf-8')) of a path that exists: the text of
\* a static asset is no JSON, and a directory cannot be read
ReadJson(disk, p) ==
    LET key == DiskKey(p)
    IN  IF key \in DOMAIN disk.packages
        THEN IF JsonParseThrows(disk.packages[key]) THEN [error |-> disk.packages[key].error]
             ELSE [error |-> "none", value |-> PackageJsonObject(disk.packages[key])]
        ELSE IF key \in DOMAIN disk.configs
        THEN IF JsonParseThrows(disk.configs[key]) THEN [error |-> disk.configs[key].error]
             ELSE [error |-> "none", value |-> disk.configs[key].value]
        ELSE IF key \in disk.present THEN [error |-> "SyntaxError"]
        ELSE [error |-> "EISDIR"]

\* line 945: mainConfig.getSafeFieldValue(['buildDir']) || 'storybook-static'
BuildDirOf(mainConfig) ==
    IF TruthyJson(mainConfig.buildDir) THEN mainConfig.buildDir.s ELSE STORYBOOK_STATIC

\* lines 950-959: the meta buildProjectMeta returns for the directory
\* selected
BuildProjectMeta(configDir, buildDir, staticAssets) ==
    [storybookBaseDir |-> Str(RemoveFirst(<<".", "/">> \o configDir, STORYBOOK_SEGMENT)),
     storybookConfigDir |-> Str(<<".", "/">> \o configDir),
     storybookBuildDir |-> Str(<<".", "/">> \o buildDir),
     staticAssets |-> staticAssets]

(* buildConfig, from its end to its start *)

\* lines 1872-1890: the header is shown and the directories are globbed
BuildConfigEnters(f) == Awaits(Box(f, TitleHelper), "storybookDirs")

\* storybookDirs.filter(dir => dir !== selectedProject)
RemainingProjects(dirs, selected) == SelectSeq(dirs, LAMBDA d : d # selected)

\* lines 1887-1890, 1921-1927: await buildConfig() takes no argument, the pass
\* globs again and offers every directory found
NextChoices(dirs, selected) == dirs

\* lines 2016-2023, 2053: with several projects the user is asked about
\* another one; with one project buildConfig returns
PassEnds(f) ==
    IF Len(f.storybookDirs) > 1 THEN Ask(f, "configureAnother") ELSE Awaits(f, "return")

\* lines 2025-2045, 2051
ConfigureAnother(f, configureAnother) ==
    IF configureAnother THEN Ask(f, "nextProject") ELSE Awaits(f, "return")

\* a further call of buildConfig begins. Its variables are new; of what was
\* asked, answered, shown and configured before it, the project configured
\* last and the answer that names the next project are kept
Forget(f) ==
    [f EXCEPT !.asked = <<@[Len(@)]>>,
              !.answers = <<@[Len(@)]>>,
              !.shown = <<>>,
              !.configured = <<@[Len(@)]>>,
              !.res = Null,
              !.report = Null,
              !.written = None,
              !.existingConfig = <<>>,
              !.configPath = <<>>,
              !.meta = <<>>,
              !.packageJson = <<>>,
              !.selectedProject = None]

\* lines 2047-2050: the pass that follows is a call of buildConfig; when it
\* returns, so does this one
NextProject(f, nextProject) ==
    IF nextProject # EXIT_CHOICE THEN BuildConfigEnters(Forget(f))
    ELSE Awaits(f, "return")

(* updatePackageJsonScript of index.ts, lines 1699-1869 *)

\* lines 1702-1706: the package.json beside the Storybook project when
\* fs.existsSync finds it, a file or a directory, or the one of the project
\* root
FinalPackageJsonPath(disk, dirs, m) ==
    LET packageJsonPath == PathJoin(m.storybookBaseDir.s, PACKAGE_JSON)
    IN  IF Exists(disk, dirs, packageJsonPath) THEN packageJsonPath
        ELSE ROOT_PACKAGE_JSON

\* line 1711: the config file is the one of the Storybook base directory
ConfigAtBase(path, m) ==
    PathResolve(path) = PathJoin(PathJoin(CWD, m.storybookBaseDir.s), BASE_CONFIG)

\* packageJson.scripts?.chromatic
ChromaticScript(scripts) ==
    IF \E i \in 1..Len(scripts) : scripts[i].name = NameChromatic
    THEN scripts[CHOOSE i \in 1..Len(scripts) : scripts[i].name = NameChromatic].script
    ELSE Undefined

\* lines 1714-1715: `chromatic --config-file ${relativeConfigPath}`
ExpectedScript(finalPackageJsonPath, path) ==
    CHROMATIC \o <<" ">> \o CONFIG_FILE \o <<" ">>
        \o PathRelative(PathDirname(finalPackageJsonPath), path)

\* lines 1752-1770, 1828-1846: the script is set, package.json written and
\* Success! shown
ScriptWritten(f) ==
    LET finalPackageJsonPath == FinalPackageJsonPath(f.files, f.storybookDirs, f.meta)
        updated == [f.packageJson EXCEPT
                       !.value = SetScript(@, NameChromatic,
                                     Str(ExpectedScript(finalPackageJsonPath, f.configPath)))]
    IN  Box([f EXCEPT !.packageJson = updated,
                      !.files.packages = (DiskKey(finalPackageJsonPath) :> updated) @@ @],
            TitleSuccess)

\* lines 1742-1770 and 1818-1846: the answer to addScript or confirmUpdate
ScriptAnswered(f, agreed) ==
    IF ~agreed THEN Then(Box(f, TitleUpdateCancelled), PassEnds)
    ELSE Then(ScriptWritten(f), PassEnds)

\* lines 1709-1816: the script of the package.json that was read
ScriptReviewed(f) ==
    LET chromaticScript == ChromaticScript(f.packageJson.value)
        expectedScript == ExpectedScript(FinalPackageJsonPath(f.files, f.storybookDirs, f.meta),
                                         f.configPath)
    IN  IF ConfigAtBase(f.configPath, f.meta) THEN PassEnds(f)
        ELSE IF ~TruthyJson(chromaticScript)
        THEN Ask(Box(f, TitleNoScriptFound), "addScript")
        ELSE IF chromaticScript = Str(expectedScript)
        THEN PassEnds(Box(f, TitleScriptUpToDate))
        ELSE AskAt(Box(f, TitlePackageJsonUpdate), "confirmUpdate", "confirmScript")

\* lines 1699-1709, 1856-1868: the package.json is read and parsed; what is
\* thrown (no such file, a directory, no JSON) is caught, a Warning shown and
\* the function returns
UpdatePackageJsonScriptEnters(f) ==
    LET finalPackageJsonPath == FinalPackageJsonPath(f.files, f.storybookDirs, f.meta)
        key == DiskKey(finalPackageJsonPath)
    IN  IF ~Exists(f.files, f.storybookDirs, finalPackageJsonPath)
        THEN PassEnds(Box(f, TitleWarning))
        ELSE IF ReadJson(f.files, finalPackageJsonPath).error # "none"
        THEN PassEnds(Box(f, TitleWarning))
        ELSE IF key \in DOMAIN f.files.packages
        THEN Then([f EXCEPT !.packageJson = f.files.packages[key]], ScriptReviewed)
        ELSE Then([f EXCEPT !.packageJson =
                               PackageJsonOf(ReadJson(f.files, finalPackageJsonPath).value)],
                  ScriptReviewed)

\* lines 1998-2014: finalConfig is there: Success! is shown and the script
\* of package.json reviewed
ConfigSettled(f) ==
    Then([Box(f, TitleSuccess) EXCEPT !.configured = Append(@, f.selectedProject.value)],
         UpdatePackageJsonScriptEnters)

\* return { path: configPath, config } with the config in f.res: to
\* buildConfig in init mode, else to the caller of the function, at `at`
ConfigReturned(f, at) ==
    IF mode = "init" THEN Then(f, ConfigSettled) ELSE Awaits(f, at)

(* updateChromaticConfig, lines 1449-1697, and createChromaticConfig, lines *)
(* 1129-1447; createChromaticConfig has existingConfig = null               *)

\* lines 1280-1286, 1414, 1438-1440: the config of createChromaticConfig and
\* what its Externals Update box lists
createChromaticConfigPrompted(projectId, m, a) ==
    LET config == (K_SCHEMA :> SCHEMA_URL)
                  @@ (K_PROJECT_ID :> Str(PROJECT_PREFIX \o projectId))
                  @@ StorybookProps(m)
        selectedAssets == SelectedAssets(m, a)
        prompted == Len(m.staticAssets) > 0 /\ a.updateExternals /\ Len(selectedAssets) > 0
        newExternals == NewExternals(selectedAssets, a.useGlob)
    IN  IF ~prompted THEN [config |-> config, box |-> Null]
        ELSE [config |-> IF a.confirmExternals
                         THEN config @@ (K_EXTERNALS :> Arr(newExternals))
                         ELSE config,
              box |-> [kind |-> "externals", added |-> newExternals, preserved |-> <<>>]]

\* the config under way and its Externals Update box
PromptedConfig(f) ==
    IF f.existingConfig = Null
    THEN createChromaticConfigPrompted(LastAnswer(f, "projectId", <<>>), f.meta, GivenIn(f))
    ELSE updateChromaticConfigPrompted(f.existingConfig, f.meta, GivenIn(f))

\* fs.writeFileSync(p, JSON.stringify(config)): the file at p has the content
\* written, also when it is a package.json
FileWritten(disk, p, json) ==
    IF DiskKey(p) \in DOMAIN disk.packages
    THEN [disk EXCEPT !.packages = (DiskKey(p) :> PackageJsonOf(json)) @@ @]
    ELSE [disk EXCEPT !.configs = (DiskKey(p) :> Some(json)) @@ @]

\* lines 1695-1696 (1445-1446): fs.writeFileSync(configPath, JSON.stringify(config))
\* and the return
ConfigStored(f, config) ==
    [f EXCEPT !.written = Some(JsonWritten(config)),
              !.files = FileWritten(@, f.configPath, JsonWritten(config)),
              !.res = config]

ConfigWritten(f) ==
    Then(Then(PromptedConfig(f).config, LAMBDA config : ConfigStored(f, config)),
         LAMBDA g : ConfigReturned(g, "written"))

\* lines 1521-1541 (1289-1309): with static assets the user is asked about
\* the externals
ExternalsOffered(f) ==
    IF Len(f.meta.staticAssets) > 0 THEN Ask(Box(f, TitleStaticAssets), "updateExternals")
    ELSE ConfigWritten(f)

\* lines 1542-1552 (1310-1320)
UpdateExternals(f, updateExternals) ==
    IF updateExternals THEN Ask(f, "selectionMode") ELSE ConfigWritten(f)

\* lines 1554-1563, 1624-1630 (1322-1331, 1392-1398)
SelectionMode(f, selectionMode) ==
    CASE selectionMode = "all" -> Ask(f, "useGlob")
      [] selectionMode = "individual" -> Ask(f, "showDetails")
      [] OTHER -> ConfigWritten(f)

\* lines 1565-1570 (1333-1338)
ShowDetails(f, showDetails) == Ask(f, "showPaths")

\* fs.statSync(file).size, called for every asset when the details are shown:
\* an asset that is gone makes it throw
StatThrows(f) ==
    /\ GivenIn(f).showDetails
    /\ \E i \in 1..Len(f.meta.staticAssets) : f.meta.staticAssets[i] \notin f.files.present

\* lines 1572-1619 (1340-1387): the choices of the assets prompt are made,
\* grouped by directory when showPaths was agreed to
ShowPaths(f, showPaths) ==
    IF showPaths /\ GroupingThrows([i \in 1..Len(f.meta.staticAssets) |->
                                       PathDirname(f.meta.staticAssets[i])])
    THEN Throws(f, "TypeError")
    ELSE IF StatThrows(f) THEN Throws(f, "ENOENT")
    ELSE Ask(f, "assets")

\* the sets of choices that can be ticked at the assets prompt
AssetChoices(f) ==
    IF GivenIn(f).showPaths THEN SUBSET (1..Len(AssetDirs(f.meta.staticAssets)))
    ELSE SUBSET (1..Len(f.meta.staticAssets))

\* lines 1602, 1620, 1624-1630 (1371, 1388, 1392-1398)
Assets(f, chosen) ==
    IF Len(SelectedAssets(f.meta, GivenIn(f))) > 0 THEN Ask(f, "useGlob")
    ELSE ConfigWritten(f)

\* lines 1632-1686 (1400-1436): the externals are worked out and shown in
\* the Externals Update box
UseGlob(f, useGlob) ==
    Then(PromptedConfig(f).box,
         LAMBDA box : Ask(Box([f EXCEPT !.report = box], TitleExternalsUpdate),
                          "confirmExternals"))

\* lines 1688-1696 (1438-1446)
ConfirmExternals(f, confirmExternals) == ConfigWritten(f)

\* lines 1449-1456: updateChromaticConfig(configPath, existingConfig, meta)
UpdateChromaticConfigEnters(f, path, existing) ==
    Ask([f EXCEPT !.configPath = path, !.existingConfig = existing], "shouldUpdate")

\* line 1457: if (!shouldUpdate)
UpdateDeclined(shouldUpdate) == ~shouldUpdate

\* an update carried out whatever the second answer is
UpdateNeverCancelled(confirmUpdate) == FALSE

\* line 1496: if (!confirmUpdate)
UpdateCancelled(confirmUpdate) == ~confirmUpdate

\* lines 1457-1494
ShouldUpdate(f, shouldUpdate) ==
    IF UpdateDeclined(shouldUpdate) THEN Exits(Box(f, TitleGoodbye), 0)
    ELSE Ask(Box(f, TitleConfigurationChanges), "confirmUpdate")

\* lines 1496-1519
ConfirmUpdate(f, confirmUpdate) ==
    IF UpdateCancelled(confirmUpdate)
    THEN Then([Box(f, TitleUpdateCancelled) EXCEPT !.res = f.existingConfig],
              LAMBDA g : ConfigReturned(g, "returned"))
    ELSE ExternalsOffered(f)

\* lines 1129-1147: createChromaticConfig(meta) shows its box and globs the
\* Chromatic config files of the Storybook base directory
CreateChromaticConfigEnters(f) ==
    Awaits(Box([f EXCEPT !.existingConfig = Null, !.configPath = <<>>], TitleCreating),
           "existingConfigs")

\* line 1144: glob('**/chromatic.config.{js,json}', { cwd: meta.storybookBaseDir })
ChromaticConfigsIn(disk, m) ==
    GlobFiles(disk, PathNormalize(m.storybookBaseDir.s), IsChromaticConfigFile)

\* lines 1149-1172, 1198-1203
ExistingConfigsGlobbed(f) ==
    IF ChromaticConfigsIn(f.files, f.meta) # {}
    THEN AskAt(Box(f, TitleExistingConfigFound), "useExisting", "updateExisting")
    ELSE Ask(f, "projectId")

\* lines 1174-1180, 1198-1203
UpdateExisting(f, useExisting) ==
    IF useExisting THEN Ask(f, "selectedConfig") ELSE Ask(f, "projectId")

\* lines 1182-1196: the file selected is read and parsed, the prefix taken
\* off its project ID, and the config handed to updateChromaticConfig
SelectedConfig(f, selectedConfig) ==
    LET path == PathJoin(f.meta.storybookBaseDir.s, selectedConfig)
    IN  IF JsonParseThrows(ConfigRead(f.files, path))
        THEN Throws(f, ConfigRead(f.files, path).error)
        ELSE IF ReplaceThrows(ConfigRead(f.files, path)) THEN Throws(f, "TypeError")
        ELSE UpdateChromaticConfigEnters(f, path, ConfigRead(f.files, path).value)

\* lines 1205-1236
ProjectId(f, newProjectId) ==
    IF Len(newProjectId) = 0 THEN Exits(Box(f, TitleGoodbye), 0)
    ELSE Ask(f, "configLocation")

\* lines 1238-1260, 1280-1309
ConfigLocation(f, configLocation) ==
    CASE configLocation = "exit" -> Exits(Box(f, TitleGoodbye), 0)
      [] configLocation = "custom" -> Ask(f, "customPath")
      [] OTHER ->
            Then([f EXCEPT !.configPath = PathJoin(f.meta.storybookBaseDir.s, BASE_CONFIG)],
                 ExternalsOffered)

\* lines 1262-1309
CustomPath(f, customPath) ==
    IF Len(customPath) = 0 THEN Exits(Box(f, TitleGoodbye), 0)
    ELSE Then([f EXCEPT !.configPath = PathJoin(CWD, customPath)], ExternalsOffered)

(* findChromaticConfig of index.ts, lines 962-1127 *)

\* lines 962-981: the box, and the config files of the Storybook directory
\* are globbed
FindChromaticConfigEnters(f) == Awaits(Box(f, TitleSearching), "configFiles")

\* lines 977-998: configFiles, as a set; fs.existsSync finds
\* chromatic.config.json when it is a file or a directory
ConfigFiles(disk, dirs, storybookDir) ==
    LET chromaticConfigPath == PathJoin(storybookDir, BASE_CONFIG)
    IN  GlobAbsolute(disk, storybookDir, IsConfigFile)
        \cup (IF Exists(disk, dirs, chromaticConfigPath) THEN {chromaticConfigPath} ELSE {})
        \cup GlobAbsolute(disk, PathDirname(storybookDir), IsConfigFile)

\* /--config-file\s+([^\s]+)/: the first --config-file with white space and
\* then a word after it; the word is the group
ConfigFileMatch(script) ==
    LET n == Len(CONFIG_FILE)
        starts == { p \in 1..Len(script) :
                      /\ IsLit(script, p, CONFIG_FILE)
                      /\ RunEnd(script, p + n, WS) > p + n
                      /\ RunEnd(script, p + n, WS) <= Len(script) }
        from == RunEnd(script, SetMin(starts) + n, WS)
    IN  IF starts = {} THEN None
        ELSE Some(SubSeq(script, from, RunEndNot(script, from, WS) - 1))

\* path.resolve(storybookDir, configFileMatch[1])
ReferencedPath(storybookDir, word) ==
    PathResolve(IF word[1] = "/" THEN word ELSE storybookDir \o <<"/">> \o word)

\* lines 1054-1126: no config file was found; the chromatic script of the
\* package.json in the Storybook directory may name one. What is thrown is
\* caught, a Warning shown, and null returned
ReferencedConfigSought(f) ==
    LET storybookDir == f.selectedProject.value
        packageJsonPath == PathJoin(storybookDir, PACKAGE_JSON)
        key == DiskKey(packageJsonPath)
        read == f.files.packages[key]
        chromaticScript == ChromaticScript(read.value)
        configFileMatch == ConfigFileMatch(chromaticScript.s)
    IN  IF ~Exists(f.files, f.storybookDirs, packageJsonPath)
        THEN CreateChromaticConfigEnters(f)
        ELSE IF key \notin DOMAIN f.files.packages
        THEN CreateChromaticConfigEnters(Box(f, TitleWarning))
        ELSE IF JsonParseThrows(read) THEN CreateChromaticConfigEnters(Box(f, TitleWarning))
        ELSE IF ~TruthyJson(chromaticScript) THEN CreateChromaticConfigEnters(f)
        ELSE IF chromaticScript.type # "string"
        THEN CreateChromaticConfigEnters(Box(f, TitleWarning))
        ELSE IF ~configFileMatch.present THEN CreateChromaticConfigEnters(f)
        ELSE IF Exists(f.files, f.storybookDirs,
                       ReferencedPath(storybookDir, configFileMatch.value))
        THEN Ask(Box([f EXCEPT !.configPath =
                                  ReferencedPath(storybookDir, configFileMatch.value)],
                     TitleConfigFileFound),
                 "useReferenced")
        ELSE CreateChromaticConfigEnters(Box(f, TitleWarning))

\* lines 1088-1092, 1110-1126: the path named is read and parsed; what is
\* thrown is caught and a Warning shown
UseReferenced(f, useReferenced) ==
    IF ~useReferenced THEN CreateChromaticConfigEnters(f)
    ELSE IF ReadJson(f.files, f.configPath).error # "none"
    THEN CreateChromaticConfigEnters(Box(f, TitleWarning))
    ELSE UpdateChromaticConfigEnters(f, f.configPath,
                                     ReadJson(f.files, f.configPath).value)

\* lines 998-1019, 1054: with config files the user is asked whether to use one
ProjectConfigFilesGlobbed(f) ==
    IF ConfigFiles(f.files, f.storybookDirs, f.selectedProject.value) # {}
    THEN Ask(Box(f, TitleConfigFilesFound), "useExisting")
    ELSE ReferencedConfigSought(f)

\* lines 1021-1033
UseExisting(f, useExisting) ==
    IF useExisting THEN Ask(f, "configFile") ELSE CreateChromaticConfigEnters(f)

\* lines 1035-1051: the path selected is read and parsed; a directory
\* cannot be read
ConfigFile(f, configFile) ==
    IF ReadJson(f.files, configFile).error # "none"
    THEN Throws(f, ReadJson(f.files, configFile).error)
    ELSE UpdateChromaticConfigEnters(Box(f, TitleConfigSelected), configFile,
                                     ReadJson(f.files, configFile).value)

(* buildConfig, lines 1871-2053 *)

\* lines 1892-1937
StorybookDirsGlobbed(f, dirs) ==
    IF Len(dirs) = 0 THEN Exits(Box([f EXCEPT !.storybookDirs = dirs], TitleNoConfig), 1)
    ELSE Ask(Box([f EXCEPT !.storybookDirs = dirs], TitleProjects), "selectedProject")

\* lines 1939-1969
SelectedProject(f, choice) ==
    IF choice = EXIT_CHOICE
    THEN Exits(Box([f EXCEPT !.selectedProject = Some(choice)], TitleGoodbye), 0)
    ELSE Awaits(Box([f EXCEPT !.selectedProject = Some(choice)], TitleProject),
                "readConfig")

BUILD_DIR_DIST == Chars("dist")

\* what await readConfig(mainConfigPath) can come to: a rejection, or a main
\* config with or without a framework field, whose buildDir field is not
\* there, is '' or is 'dist'
MainConfigs ==
    { [settled |-> "rejected", framework |-> FALSE, buildDir |-> Undefined],
      [settled |-> "fulfilled", framework |-> FALSE, buildDir |-> Undefined] }
    \cup { [settled |-> "fulfilled", framework |-> TRUE, buildDir |-> buildDir] :
              buildDir \in {Undefined, Str(<<>>), Str(BUILD_DIR_DIST)} }

\* lines 1969-1971, 812-814, 938-948: readConfig rejected, or gave the main
\* config; without a framework field pluckFrameworkFromRawContents takes
\* start and end of undefined; else buildProjectMeta takes the build
\* directory, which it holds in buildDir while the static assets are globbed
ReadConfigSettled(f, mainConfig) ==
    IF mainConfig.settled = "rejected" THEN Throws(f, "readConfig")
    ELSE IF ~mainConfig.framework THEN Throws(f, "TypeError")
    ELSE Awaits([f EXCEPT !.meta = [buildDir |-> BuildDirOf(mainConfig)]], "staticAssets")

\* lines 948-959, 1971-1989
StaticAssetsGlobbed(f) ==
    Then(Box([f EXCEPT !.meta = BuildProjectMeta(f.selectedProject.value, f.meta.buildDir,
                                                 f.files.assets)],
             TitleProjectDetails),
         FindChromaticConfigEnters)

(* The turns *)

\* index.ts:2055: buildConfig() is called
BuildConfigStart ==
    /\ pc = "start"
    /\ mode = "init"
    /\ Turn(Flow, BuildConfigEnters)

\* lines 1887-1937: the directories are globbed; none found ends the run
BuildConfigGlob ==
    /\ pc = "storybookDirs"
    /\ Turn(Flow, LAMBDA f : StorybookDirsGlobbed(f, found.value))

\* lines 1921-1969: the project prompt of a pass is answered; in a pass
\* entered by the recursive call the list offered is that of NextChoices
BuildConfigSelect ==
    /\ pc = "selectedProject"
    /\ LET offered == IF Len(configured) = 0 THEN storybookDirs
                      ELSE NextChoices(storybookDirs, configured[Len(configured)])
       IN  \E choice \in {offered[i] : i \in 1..Len(offered)} \cup {EXIT_CHOICE} :
              Turn(Answered(Flow, choice), LAMBDA f : SelectedProject(f, choice))

\* line 1969: await readConfig(mainConfigPath)
ReadConfigDone ==
    /\ pc = "readConfig"
    /\ Turn(Flow, LAMBDA f : ReadConfigSettled(f, f.files.mains[f.selectedProject.value]))

\* line 908: await glob(staticAssetPatterns)
StaticAssetsDone ==
    /\ pc = "staticAssets"
    /\ Turn(Flow, StaticAssetsGlobbed)

\* line 977: await glob('**/*.config.{js,json}', { cwd: storybookDir })
ConfigFilesDone ==
    /\ pc = "configFiles"
    /\ Turn(Flow, LAMBDA f : Awaits(f, "projectConfigFiles"))

\* line 991: await glob('**/*.config.{js,json}', { cwd: projectRoot })
ProjectConfigFilesDone ==
    /\ pc = "projectConfigFiles"
    /\ Turn(Flow, ProjectConfigFilesGlobbed)

\* line 1014: useExisting is answered
UseExistingAnswered ==
    /\ pc = "useExisting"
    /\ \E useExisting \in BOOLEAN :
          Turn(Answered(Flow, useExisting), LAMBDA f : UseExisting(f, useExisting))

\* line 1025: configFile is answered
ConfigFileAnswered ==
    /\ pc = "configFile"
    /\ \E configFile \in ConfigFiles(files, storybookDirs, selectedProject.value) :
          Turn(Answered(Flow, configFile), LAMBDA f : ConfigFile(f, configFile))

\* line 1081: useReferenced is answered
UseReferencedAnswered ==
    /\ pc = "useReferenced"
    /\ \E useReferenced \in BOOLEAN :
          Turn(Answered(Flow, useReferenced), LAMBDA f : UseReferenced(f, useReferenced))

\* line 1144: await glob('**/chromatic.config.{js,json}')
ExistingConfigsDone ==
    /\ pc = "existingConfigs"
    /\ Turn(Flow, ExistingConfigsGlobbed)

\* line 1167: useExisting of createChromaticConfig is answered
UpdateExistingAnswered ==
    /\ pc = "updateExisting"
    /\ \E useExisting \in BOOLEAN :
          Turn(Answered(Flow, useExisting), LAMBDA f : UpdateExisting(f, useExisting))

\* line 1175: selectedConfig is answered
SelectedConfigAnswered ==
    /\ pc = "selectedConfig"
    /\ \E selectedConfig \in ChromaticConfigsIn(files, meta) :
          Turn(Answered(Flow, selectedConfig), LAMBDA f : SelectedConfig(f, selectedConfig))

\* line 1199: projectId is answered
ProjectIdAnswered ==
    /\ pc = "projectId"
    /\ \E newProjectId \in {<<>>, IdAbc} :
          Turn(Answered(Flow, newProjectId), LAMBDA f : ProjectId(f, newProjectId))

\* line 1227: configLocation is answered
ConfigLocationAnswered ==
    /\ pc = "configLocation"
    /\ \E configLocation \in {"base", "custom", "exit"} :
          Turn(Answered(Flow, configLocation), LAMBDA f : ConfigLocation(f, configLocation))

\* line 1255: customPath is answered
CustomPathAnswered ==
    /\ pc = "customPath"
    /\ \E customPath \in {<<>>, Chars("turbosnap.config.json")} :
          Turn(Answered(Flow, customPath), LAMBDA f : CustomPath(f, customPath))

\* updateChromaticConfig is called on the existing config
UpdateChromaticConfigStart ==
    /\ pc = "start"
    /\ variant = "index.ts"
    /\ mode = "none"
    /\ Turn(Flow, LAMBDA f : UpdateChromaticConfigEnters(f, configPath, existingConfig))

\* line 1450: shouldUpdate is answered
ShouldUpdateAnswered ==
    /\ pc = "shouldUpdate"
    /\ \E shouldUpdate \in BOOLEAN :
          Turn(Answered(Flow, shouldUpdate), LAMBDA f : ShouldUpdate(f, shouldUpdate))

\* line 1489: confirmUpdate is answered
ConfirmUpdateAnswered ==
    /\ pc = "confirmUpdate"
    /\ \E confirmUpdate \in BOOLEAN :
          Turn(Answered(Flow, confirmUpdate), LAMBDA f : ConfirmUpdate(f, confirmUpdate))

\* line 1535 (1303): updateExternals is answered
UpdateExternalsAnswered ==
    /\ pc = "updateExternals"
    /\ \E updateExternals \in BOOLEAN :
          Turn(Answered(Flow, updateExternals), LAMBDA f : UpdateExternals(f, updateExternals))

\* line 1543 (1311): selectionMode is answered
SelectionModeAnswered ==
    /\ pc = "selectionMode"
    /\ \E selectionMode \in {"all", "none", "individual"} :
          Turn(Answered(Flow, selectionMode), LAMBDA f : SelectionMode(f, selectionMode))

\* line 1558 (1326): showDetails is answered
ShowDetailsAnswered ==
    /\ pc = "showDetails"
    /\ \E showDetails \in BOOLEAN :
          Turn(Answered(Flow, showDetails), LAMBDA f : ShowDetails(f, showDetails))

\* line 1565 (1333): showPaths is answered
ShowPathsAnswered ==
    /\ pc = "showPaths"
    /\ \E showPaths \in BOOLEAN :
          Turn(Answered(Flow, showPaths), LAMBDA f : ShowPaths(f, showPaths))

\* lines 1583 and 1605 (1351 and 1373): assets is answered
AssetsAnswered ==
    /\ pc = "assets"
    /\ \E chosen \in AssetChoices(Flow) :
          Turn(Answered(Flow, chosen), LAMBDA f : Assets(f, chosen))

\* line 1625 (1393): useGlob is answered
UseGlobAnswered ==
    /\ pc = "useGlob"
    /\ \E useGlob \in BOOLEAN :
          Turn(Answered(Flow, useGlob), LAMBDA f : UseGlob(f, useGlob))

\* line 1681 (1431): confirmExternals is answered
ConfirmExternalsAnswered ==
    /\ pc = "confirmExternals"
    /\ \E confirmExternals \in BOOLEAN :
          Turn(Answered(Flow, confirmExternals), LAMBDA f : ConfirmExternals(f, confirmExternals))

\* line 1734: addScript of updatePackageJsonScript is answered
AddChromaticScriptAnswered ==
    /\ pc = "addScript"
    /\ mode = "init"
    /\ variant = "none"
    /\ \E addScript \in BOOLEAN :
          Turn(Answered(Flow, addScript), LAMBDA f : ScriptAnswered(f, addScript))

\* line 1810: confirmUpdate of updatePackageJsonScript is answered
ConfirmScriptAnswered ==
    /\ pc = "confirmScript"
    /\ \E confirmUpdate \in BOOLEAN :
          Turn(Answered(Flow, confirmUpdate), LAMBDA f : ScriptAnswered(f, confirmUpdate))

\* line 2018: configureAnother is answered
ConfigureAnotherAnswered ==
    /\ pc = "configureAnother"
    /\ \E configureAnother \in BOOLEAN :
          Turn(Answered(Flow, configureAnother), LAMBDA f : ConfigureAnother(f, configureAnother))

\* line 2029: nextProject is answered
NextProjectAnswered ==
    /\ pc = "nextProject"
    /\ LET remainingProjects == RemainingProjects(storybookDirs, selectedProject.value)
       IN  \E nextProject \in {remainingProjects[i] : i \in 1..Len(remainingProjects)}
                              \cup {EXIT_CHOICE} :
              Turn(Answered(Flow, nextProject), LAMBDA f : NextProject(f, nextProject))

\* lines 2055-2058: buildConfig().then(() => process.exit(0))
BuildConfigThen ==
    /\ pc = "return"
    /\ mode = "init"
    /\ Turn(Flow, LAMBDA f : Exits(f, 0))

\* lines 2059-2062: .catch((e) => { console.error(e); process.exit(1) })
BuildConfigCatch ==
    /\ pc = "thrown"
    /\ mode = "init"
    /\ Turn(Flow, LAMBDA f : Exits(Box(f, TitleError), 1))

(* updateChromaticConfig on its own *)

ConfigsWithExternals ==
    { (K_PROJECT_ID :> Str("Project:abc")) @@ (K_ZIP :> Bool(TRUE)) }
    \cup { (K_PROJECT_ID :> Str("Project:abc")) @@ (K_EXTERNALS :> Arr(ex)) :
             ex \in DistinctSeqsUpTo({ExternalPublicPng, ExternalPublicSvg,
                                      ExternalLogoSvg, ExternalSrcCss}, MaxExternals) }

\* the assets still on disk when the choices are made: all of them, or all
\* but the first
PresentSets(assets) ==
    LET all == {assets[i] : i \in 1..Len(assets)}
    IN  {all} \cup (IF assets = <<>> THEN {} ELSE {all \ {assets[1]}})

InitExternals ==
    /\ stmts = <<>>
    /\ content = <<>>
    /\ manifest = NoManifest
    /\ pc = "start"
    /\ res = Null
    /\ report = Null
    /\ filePath = <<>>
    /\ pending = <<>>
    /\ queries = <<>>
    /\ imports = Null
    /\ componentFile = None
    /\ ModeIdle
    /\ variant = "index.ts"
    /\ existingConfig \in ConfigsWithExternals
    /\ configPath = BASE_CONFIG
    /\ \E assets \in DistinctSeqsUpTo({AssetLogoSvg, AssetImgPng, AssetRootPng,
                                       AssetConstructorPng}, MaxAssets) :
          /\ meta = [storybookBaseDir |-> Str(Chars(".")),
                     storybookConfigDir |-> Str(Chars(".storybook")),
                     storybookBuildDir |-> Str(Chars("storybook-static")),
                     staticAssets |-> assets]
          /\ \E present \in PresentSets(assets) :
                files = [assets |-> assets, present |-> present,
                         configs |-> (BASE_CONFIG :> Some(existingConfig)),
                         packages |-> <<>>]
    /\ answers = <<>>
    /\ written = None
    /\ packageJson = <<>>
    /\ asked = <<>>
    /\ returned = None
    /\ configured = <<>>

NextExternals ==
    \/ UpdateChromaticConfigStart
    \/ ShouldUpdateAnswered
    \/ ConfirmUpdateAnswered
    \/ UpdateExternalsAnswered
    \/ SelectionModeAnswered
    \/ ShowDetailsAnswered
    \/ ShowPathsAnswered
    \/ AssetsAnswered
    \/ UseGlobAnswered
    \/ ConfirmExternalsAnswered

SpecExternals == InitExternals /\ [][NextExternals]_vars

\* an entry matches an added pattern <dir>/**/*<ext> when it is that pattern
\* or a path under <dir> that ends in <ext>; it matches an added path when it
\* is that path
MatchesAdded(entry, added) ==
    \/ entry = added
    \/ \E n \in 1..Len(added) :
          /\ n + Len(GLOB_ANY) - 1 <= Len(added)
          /\ SubSeq(added, n, n + Len(GLOB_ANY) - 1) = GLOB_ANY
          /\ LET dir == SubSeq(added, 1, n - 1)
                 ext == SubSeq(added, n + Len(GLOB_ANY), Len(added))
             IN  /\ dir = <<".">> \/ StartsWith(entry, dir \o <<"/">>)
                 /\ EndsWith(entry, ext)
                 /\ \A i \in 1..Len(entry) : entry[i] # "*"

\* externals were added to a config that had some
ExternalsAdded ==
    /\ pc = "written"
    /\ report # Null
    /\ Given.confirmExternals
    /\ ExistingExternals(existingConfig) # <<>>

\* C20: when externals are added to a config whose externals list is not
\* empty, an existing entry is absent from the written list only if it
\* matches a pattern or path being added, and every added entry is present.
C20_ExternalsRemovedOnlyWhenMatched ==
    ExternalsAdded
    => LET old == ExistingExternals(existingConfig)
           new == written.value[K_EXTERNALS].items
       IN  /\ \A i \in 1..Len(old) :
                 ~InSeq(old[i], new)
                 => \E j \in 1..Len(report.added) : MatchesAdded(old[i], report.added[j])
           /\ \A j \in 1..Len(report.added) : InSeq(report.added[j], new)

\* the user answered no to shouldUpdate or to confirmUpdate
UpdateRefused ==
    /\ variant = "index.ts"
    /\ mode = "none"
    /\ \E i \in 1..Len(answers) :
          asked[i] \in {"shouldUpdate", "confirmUpdate"} /\ ~answers[i]

\* C25: when the user declines the update of the existing config or declines
\* to proceed with the changes, the config file is not written, its content
\* stays what it was, and the run exits with status 0 or goes on with the
\* existing config.
C25_DeclinedUpdateWritesNothing ==
    UpdateRefused =>
        /\ written = None
        /\ files.configs = (BASE_CONFIG :> Some(existingConfig))
        /\ pc \in {"exited", "returned"}
        /\ pc = "exited" => exit = Some(0) /\ ~Given.shouldUpdate
        /\ pc = "returned" => res = existingConfig /\ exit = None

\* the user agreed to update and then declined to proceed
C25_Witness ==
    /\ variant = "index.ts"
    /\ pc = "returned"
    /\ asked = <<"shouldUpdate", "confirmUpdate">>
    /\ answers = <<TRUE, FALSE>>
    /\ written = None
    /\ K_EXTERNALS \in DOMAIN existingConfig

(* Init mode over several Storybook projects *)

DirDocs == Chars("docs/.storybook")

\* what glob('**/.storybook') can find in init mode
BuildDirSets == StorybookDirSets \cup { <<DirRoot, DirPackage, DirDocs>> }

ConfigAbc == (K_PROJECT_ID :> Str(PROJECT_PREFIX \o IdAbc))

ScriptsOf(name, text) == [present |-> TRUE, value |-> <<[name |-> name, script |-> Str(text)]>>]

REFERENCED == Chars("ci/chromatic.json")
REFERENCED_FROM_ROOT == Chars(".storybook/ci/chromatic.json")
REFERENCING ==
    (Chars(".storybook/package.json")
        :> ScriptsOf(NameChromatic,
                     CHROMATIC \o <<" ">> \o CONFIG_FILE \o <<" ">> \o REFERENCED))

REFERENCING_DIRECTORY ==
    (Chars(".storybook/package.json")
        :> ScriptsOf(NameChromatic,
                     CHROMATIC \o <<" ">> \o CONFIG_FILE \o <<" ">> \o Chars("ci")))

REFERENCING_ITSELF ==
    (Chars(".storybook/package.json")
        :> ScriptsOf(NameChromatic,
                     CHROMATIC \o <<" ">> \o CONFIG_FILE \o <<" ">> \o PACKAGE_JSON))

\* a directory named chromatic.config.json in the Storybook directory, and a
\* directory named package.json beside the Storybook directory of pkg: each
\* holds a file
CONFIG_DIRECTORY ==
    (Chars(".storybook/chromatic.config.json/package.json")
        :> ScriptsOf(NameBuild, Chars("vite build")))

PACKAGE_DIRECTORY ==
    (Chars("pkg/package.json/package.json") :> ScriptsOf(NameBuild, Chars("vite build")))

Disk(assets, present, configs, packages) ==
    [assets |-> assets, present |-> present, configs |-> configs, packages |-> packages]

\* the disks of the projects: nothing beside the Storybook directories; a
\* Chromatic config alone, and with a package.json without a chromatic script; a config
\* file that is no JSON and a chromatic script without the option; a
\* chromatic script in the Storybook directory that names a config file
\* which is there, is not there, is no JSON, is a directory, or is that
\* package.json itself; a package.json in the Storybook directory that is
\* no JSON; a directory where chromatic.config.json or package.json is
\* looked for
DisksWithoutAssets ==
    { Disk(<<>>, {}, <<>>, <<>>),
      Disk(<<>>, {}, (BASE_CONFIG :> Some(ConfigAbc)), <<>>),
      Disk(<<>>, {}, (BASE_CONFIG :> Some(ConfigAbc)),
           (PACKAGE_JSON :> ScriptsOf(NameBuild, Chars("vite build")))),
      Disk(<<>>, {}, (Chars("vite.config.js") :> Unparsable),
           (PACKAGE_JSON :> ScriptsOf(NameChromatic, CHROMATIC))),
      Disk(<<>>, {}, (REFERENCED_FROM_ROOT :> Some(ConfigAbc)),
           REFERENCING
           @@ (PACKAGE_JSON
                 :> ScriptsOf(NameChromatic,
                        CHROMATIC \o <<" ">> \o CONFIG_FILE \o <<" ">>
                            \o REFERENCED_FROM_ROOT))),
      Disk(<<>>, {}, <<>>, REFERENCING),
      Disk(<<>>, {}, (REFERENCED_FROM_ROOT :> Unparsable), REFERENCING),
      Disk(<<>>, {}, (REFERENCED_FROM_ROOT :> Some(ConfigAbc)), REFERENCING_DIRECTORY),
      Disk(<<>>, {}, <<>>, REFERENCING_ITSELF),
      Disk(<<>>, {}, <<>>, (Chars(".storybook/package.json") :> Unparsable)),
      Disk(<<>>, {}, <<>>, CONFIG_DIRECTORY),
      Disk(<<>>, {}, <<>>,
           PACKAGE_DIRECTORY @@ (PACKAGE_JSON :> ScriptsOf(NameBuild, Chars("vite build")))) }

\* a project with a static asset, which is still there or gone when the
\* choices are made
DisksWithAssets ==
    { Disk(<<AssetRootPng>>, present,
           (BASE_CONFIG :> Some(ConfigAbc @@ (K_EXTERNALS :> Arr(<<ExternalSrcCss>>)))),
           (PACKAGE_JSON :> ScriptsOf(NameChromatic, CHROMATIC))) :
        present \in PresentSets(<<AssetRootPng>>) }

\* the main configs of the Storybook directories: any for the first, and for
\* the others one with a framework field and the build directory 'dist'
MainsOf(dirs) ==
    IF dirs = <<>> THEN {<<>>}
    ELSE { [d \in {dirs[i] : i \in 1..Len(dirs)} |->
              IF d = dirs[1] THEN first
              ELSE [settled |-> "fulfilled", framework |-> TRUE,
                    buildDir |-> Str(BUILD_DIR_DIST)]] : first \in MainConfigs }

\* the disks taken with the directories found: the one with a static asset
\* holds one project, and three projects are taken with nothing beside them
DiskOf(dirs, disk) ==
    /\ disk \in DisksWithAssets => dirs = <<DirRoot>>
    /\ Len(dirs) > 2 => disk = Disk(<<>>, {}, <<>>, <<>>)

InitBuild ==
    /\ stmts = <<>>
    /\ content = <<>>
    /\ manifest = NoManifest
    /\ pc = "start"
    /\ res = Null
    /\ report = Null
    /\ filePath = <<>>
    /\ pending = <<>>
    /\ queries = <<>>
    /\ imports = Null
    /\ componentFile = None
    /\ results = <<>>
    /\ mode = "init"
    /\ storybookDirs = <<>>
    /\ selectedProject = None
    /\ \E dirs \in BuildDirSets, disk \in DisksWithoutAssets \cup DisksWithAssets :
          /\ DiskOf(dirs, disk)
          /\ found = Some(dirs)
          /\ files \in { [mains |-> mains] @@ disk : mains \in MainsOf(dirs) }
    /\ tasks = <<>>
    /\ jobs = <<>>
    /\ shown = <<>>
    /\ exit = None
    /\ ConfigIdle
    /\ FlowIdle

NextBuild ==
    \/ BuildConfigStart
    \/ BuildConfigGlob
    \/ BuildConfigSelect
    \/ ReadConfigDone
    \/ StaticAssetsDone
    \/ ConfigFilesDone
    \/ ProjectConfigFilesDone
    \/ UseExistingAnswered
    \/ ConfigFileAnswered
    \/ UseReferencedAnswered
    \/ ExistingConfigsDone
    \/ UpdateExistingAnswered
    \/ SelectedConfigAnswered
    \/ ProjectIdAnswered
    \/ ConfigLocationAnswered
    \/ CustomPathAnswered
    \/ ShouldUpdateAnswered
    \/ ConfirmUpdateAnswered
    \/ UpdateExternalsAnswered
    \/ SelectionModeAnswered
    \/ ShowDetailsAnswered
    \/ ShowPathsAnswered
    \/ AssetsAnswered
    \/ UseGlobAnswered
    \/ ConfirmExternalsAnswered
    \/ AddChromaticScriptAnswered
    \/ ConfirmScriptAnswered
    \/ ConfigureAnotherAnswered
    \/ NextProjectAnswered
    \/ BuildConfigThen
    \/ BuildConfigCatch

SpecBuild == InitBuild /\ [][NextBuild]_vars

\* C26: after the user agreed to configure another project and selected a
\* next project, the following pass configures exactly that project, and the
\* project just configured is not configured again.
C26_NextPassConfiguresTheSelectedProject ==
    \A k \in 2..Len(configured) :
        /\ configured[k] = AnswersTo("nextProject")[k - 1]
        /\ configured[k] # configured[k - 1]

(* findChromaticConfig of part_004 and part_003, and getStorybookConfigPath *)
(* of project-detection.ts, turn by turn                                    *)

TitleHelp == "I need your help!"

\* *.config.json
IsJsonConfigFile(name) == EndsWith(name, Chars(".config.json"))

\* part_004 line 35: glob('**/*.config.json', { cwd: storybookDir });
\* part_003 line 37: glob('**/*.config.{js,json}', { cwd: storybookDir })
FoundConfigFiles(disk, storybookDir) ==
    IF variant = "part_003" THEN GlobFiles(disk, storybookDir, IsConfigFile)
    ELSE GlobFiles(disk, storybookDir, IsJsonConfigFile)

\* return value: the promise of the function is fulfilled with it
Returns(f, value) == [f EXCEPT !.res = value, !.pc = "returned"]

\* return { path, config: JSON.parse(fs.readFileSync(path, 'utf-8')) }
ConfigOf(f, path) ==
    IF ReadJson(f.files, path).error # "none" THEN Throws(f, ReadJson(f.files, path).error)
    ELSE Returns([f EXCEPT !.configPath = path],
                 [path |-> path, config |-> ReadJson(f.files, path).value])

\* part_004 lines 20-38: the default config file of the Storybook directory
\* is read and returned when fs.existsSync finds it, a file or a directory;
\* else the config files are globbed
FindChromaticConfigCalled(f) ==
    LET defaultConfigPath == PathJoin(f.selectedProject.value, BASE_CONFIG)
    IN  IF Exists(f.files, <<f.selectedProject.value>>, defaultConfigPath)
        THEN Then(Box(f, TitleConfigFileFound), LAMBDA g : ConfigOf(g, defaultConfigPath))
        ELSE Awaits(f, "storybookConfigFiles")

\* part_004 lines 40-54
FoundConfigFilesGlobbed(f) ==
    IF FoundConfigFiles(f.files, f.selectedProject.value) = {} THEN Returns(f, Null)
    ELSE AskAt(Box(f, TitleConfigFilesFound), "useExisting", "useFound")

\* part_004 lines 56-69
UseFound(f, useExisting) ==
    IF ~useExisting THEN Returns(f, Null) ELSE AskAt(f, "selectedConfig", "foundConfig")

\* part_004 lines 71-76
FoundConfig(f, selectedConfig) ==
    ConfigOf(f, PathJoin(f.selectedProject.value, selectedConfig))

\* project-detection.ts lines 18-43
ConfigDirsGlobbed(f, dirs) ==
    CASE Len(dirs) = 0 -> Exits(Box([f EXCEPT !.storybookDirs = dirs], TitleNoConfig), 1)
      [] Len(dirs) = 1 -> Returns([f EXCEPT !.storybookDirs = dirs], dirs[1])
      [] OTHER -> Ask(Box([f EXCEPT !.storybookDirs = dirs], TitleHelp), "configDir")

\* project-detection.ts lines 45-50, part_002 lines 46-52: exitWithMessage
\* shows Goodbye! and ends the process with status 0
ConfigDir(f, configDir) ==
    IF configDir = EXIT_CHOICE THEN Exits(Box(f, TitleGoodbye), 0)
    ELSE Returns(f, configDir)

\* findChromaticConfig(storybookDir) is called
FindChromaticConfigStart ==
    /\ pc = "start"
    /\ variant \in {"part_003", "part_004"}
    /\ Turn(Flow, FindChromaticConfigCalled)

\* part_004 line 35: await glob
FoundConfigFilesDone ==
    /\ pc = "storybookConfigFiles"
    /\ Turn(Flow, FoundConfigFilesGlobbed)

\* part_004 line 49: useExisting is answered
UseFoundAnswered ==
    /\ pc = "useFound"
    /\ \E useExisting \in BOOLEAN :
          Turn(Answered(Flow, useExisting), LAMBDA f : UseFound(f, useExisting))

\* part_004 line 60: selectedConfig is answered
FoundConfigAnswered ==
    /\ pc = "foundConfig"
    /\ \E selectedConfig \in FoundConfigFiles(files, selectedProject.value) :
          Turn(Answered(Flow, selectedConfig), LAMBDA f : FoundConfig(f, selectedConfig))

\* project-detection.ts line 13: getStorybookConfigPath() is called
GetStorybookConfigPathStart ==
    /\ pc = "start"
    /\ variant = "project-detection.ts"
    /\ Turn(Flow, LAMBDA f : Awaits(f, "configDirs"))

\* project-detection.ts line 14: await glob('**/.storybook')
ConfigDirsDone ==
    /\ pc = "configDirs"
    /\ Turn(Flow, LAMBDA f : ConfigDirsGlobbed(f, found.value))

\* project-detection.ts line 36: configDir is answered
ConfigDirAnswered ==
    /\ pc = "configDir"
    /\ \E configDir \in {storybookDirs[i] : i \in 1..Len(storybookDirs)} \cup {EXIT_CHOICE} :
          Turn(Answered(Flow, configDir), LAMBDA f : ConfigDir(f, configDir))

\* the config files that may lie in and about the Storybook directories
FindPaths ==
    { Chars(".storybook/chromatic.config.json"),
      Chars(".storybook/chromatic.config.json/a.config.json"),
      Chars(".storybook/ci.config.json"),
      Chars(".storybook/vite.config.js"),
      Chars(".storybook/node_modules/x/a.config.json"),
      Chars(".storybook/.cache/b.config.json"),
      Chars("pkg/.storybook/sub/app.config.json") }

MaxFound == 2

FindDisks ==
    { Disk(<<>>, {}, configs, <<>>) :
        configs \in UNION { [P -> {Some(ConfigAbc), Unparsable}] :
                              P \in {Q \in SUBSET FindPaths : Cardinality(Q) <= MaxFound} } }

InitFind ==
    /\ stmts = <<>>
    /\ content = <<>>
    /\ manifest = NoManifest
    /\ pc = "start"
    /\ res = Null
    /\ report = Null
    /\ filePath = <<>>
    /\ pending = <<>>
    /\ queries = <<>>
    /\ imports = Null
    /\ componentFile = None
    /\ results = <<>>
    /\ mode = "none"
    /\ storybookDirs = <<>>
    /\ tasks = <<>>
    /\ jobs = <<>>
    /\ shown = <<>>
    /\ exit = None
    /\ \/ /\ variant \in {"part_003", "part_004"}
          /\ selectedProject \in {Some(DirRoot), Some(DirPackage)}
          /\ found = Some(<<>>)
          /\ files \in FindDisks
       \/ /\ variant = "project-detection.ts"
          /\ selectedProject = None
          /\ found \in {Some(d) : d \in BuildDirSets}
          /\ files = Disk(<<>>, {}, <<>>, <<>>)
    /\ existingConfig = <<>>
    /\ meta = <<>>
    /\ answers = <<>>
    /\ written = None
    /\ FlowIdle

NextFind ==
    \/ FindChromaticConfigStart
    \/ FoundConfigFilesDone
    \/ UseFoundAnswered
    \/ FoundConfigAnswered
    \/ GetStorybookConfigPathStart
    \/ ConfigDirsDone
    \/ ConfigDirAnswered

SpecFind == InitFind /\ [][NextFind]_vars

====
